---- MODULE Spec2Model ----
(***************************************************************************)
(* Iterative prompt-improvement loop of evo_blog:                          *)
(*   scripts/iterative_improver.py  (IterativeImprover, the orchestrator)  *)
(*   scripts/feedback_manager.py    (FeedbackManager, the aggregator)      *)
(*   scripts/prompt_generator.py    (PromptGenerator)                      *)
(*   scripts/comparative_evaluator.py (ComparativeEvaluator, the scorer)   *)
(*   scripts/generate_blog_post.py  (BlogGenerator, the candidate          *)
(*                                   generator)                            *)
(*                                                                         *)
(* Scores are Python floats in [0,1]; the orchestrator and the aggregator  *)
(* keep them as integers in hundredths (0..100).  A batch mean is kept     *)
(* exactly, as a multiple of 1 / (100 * MeanScale), and a weight as a      *)
(* numerator over WeightDenominator, so no rounding is introduced by the   *)
(* model.  The text heuristics of the scorer are computed on texts over a  *)
(* small vocabulary, in exact rational arithmetic.                         *)
(***************************************************************************)
EXTENDS Integers, Sequences, FiniteSets, TLC

(***************************************************************************)
(* Bounds of the model                                                     *)
(***************************************************************************)
\* largest max_iterations / num_iterations argument explored
MaxRounds == 5

(***************************************************************************)
(* Program constants                                                       *)
(***************************************************************************)
convergence_threshold == 2     \* 0.02, iterative_improver.py:63
max_stagnation == 3            \* iterative_improver.py:65
ExcellentScore == 95           \* 0.95, iterative_improver.py:420
TopVariations == 3             \* [:3], iterative_improver.py:263 and :318
TopAreas == 5                  \* weighted_feedback[:5], feedback_manager.py:259
TopRules == 3                  \* applicable_rules[:3], feedback_manager.py:291
HistoryWindow == 3             \* performance_history[-3:], feedback_manager.py:241
AreaThreshold == 70            \* 0.7, feedback_manager.py:242 and :351
DefaultHistoryScore == 50      \* h.get(area, 0.5), feedback_manager.py:241

(***************************************************************************)
(* Generic helpers                                                         *)
(***************************************************************************)
Range(s) == {s[i] : i \in DOMAIN s}

Last(s) == s[Len(s)]

Min2(a, b) == IF a <= b THEN a ELSE b

Max2(a, b) == IF a >= b THEN a ELSE b

Prefix(s, k) == SubSeq(s, 1, Min2(k, Len(s)))

Suffix(s, k) == SubSeq(s, Len(s) - Min2(k, Len(s)) + 1, Len(s))

\* Insert x into the sequence s (already ordered by key) behind every element
\* whose key is <= key[x]: Python's stable sorted(..., key=...).
RECURSIVE InsertAsc(_, _, _)
InsertAsc(s, x, key) ==
    IF s = <<>> THEN <<x>>
    ELSE IF key[Head(s)] <= key[x] THEN <<Head(s)>> \o InsertAsc(Tail(s), x, key)
    ELSE <<x>> \o s

RECURSIVE SortAsc(_, _)
SortAsc(s, key) ==
    IF s = <<>> THEN <<>>
    ELSE InsertAsc(SortAsc(SubSeq(s, 1, Len(s) - 1), key), Last(s), key)

\* Python's stable sort with reverse=True: descending, equal keys keep their
\* original order.
RECURSIVE InsertDesc(_, _, _)
InsertDesc(s, x, key) ==
    IF s = <<>> THEN <<x>>
    ELSE IF key[Head(s)] >= key[x] THEN <<Head(s)>> \o InsertDesc(Tail(s), x, key)
    ELSE <<x>> \o s

RECURSIVE SortDesc(_, _)
SortDesc(s, key) ==
    IF s = <<>> THEN <<>>
    ELSE InsertDesc(SortDesc(SubSeq(s, 1, Len(s) - 1), key), Last(s), key)

RECURSIVE SumSeq(_)
SumSeq(s) == IF s = <<>> THEN 0 ELSE Head(s) + SumSeq(Tail(s))

RECURSIVE MaxSeq(_)
MaxSeq(s) ==
    IF Len(s) = 1 THEN s[1]
    ELSE LET m == MaxSeq(Tail(s)) IN IF Head(s) >= m THEN Head(s) ELSE m

\* Python's max(range(len(s)), key=lambda i: s[i]): the first index of the maximum.
ArgMaxFirst(s) ==
    CHOOSE i \in DOMAIN s :
        /\ \A j \in DOMAIN s : s[j] <= s[i]
        /\ \A j \in 1..(i - 1) : s[j] < s[i]

(***************************************************************************)
(* FeedbackManager: score dimensions, base weights, rule catalog           *)
(***************************************************************************)
\* the keys of score_aggregates, in insertion order
Areas ==
    << "overall_similarity", "structural_match", "style_similarity", "content_depth",
       "data_usage_match", "hook_effectiveness", "conclusion_strength",
       "voice_authenticity" >>

AreaSet == Range(Areas)

\* importance_weights, in hundredths
importance_weights ==
    [a \in AreaSet |->
        CASE a = "overall_similarity" -> 100
          [] a = "style_similarity" -> 90
          [] a = "content_depth" -> 85
          [] a = "structural_match" -> 80
          [] a = "data_usage_match" -> 75
          [] a = "voice_authenticity" -> 90
          [] a = "hook_effectiveness" -> 70
          [] a = "conclusion_strength" -> 65]

\* base_rules: target_score, priority (hundredths) and conditions "area < t"
\* (t in hundredths), in catalog order
optimization_rules ==
    << [rule_name |-> "enhance_data_integration", target_score |-> "data_usage_match",
        priority |-> 90,
        conditions |-> << [area |-> "data_usage_match", threshold |-> 70] >>],
       [rule_name |-> "strengthen_voice_authenticity", target_score |-> "voice_authenticity",
        priority |-> 85,
        conditions |-> << [area |-> "voice_authenticity", threshold |-> 75],
                          [area |-> "style_similarity", threshold |-> 70] >>],
       [rule_name |-> "improve_structural_flow", target_score |-> "structural_match",
        priority |-> 80,
        conditions |-> << [area |-> "structural_match", threshold |-> 70] >>],
       [rule_name |-> "deepen_insight_quality", target_score |-> "content_depth",
        priority |-> 75,
        conditions |-> << [area |-> "content_depth", threshold |-> 70] >>],
       [rule_name |-> "strengthen_opening_hook", target_score |-> "hook_effectiveness",
        priority |-> 70,
        conditions |-> << [area |-> "hook_effectiveness", threshold |-> 60] >>],
       [rule_name |-> "enhance_conclusion_impact", target_score |-> "conclusion_strength",
        priority |-> 65,
        conditions |-> << [area |-> "conclusion_strength", threshold |-> 60] >> ] >>

RuleNames == {optimization_rules[i].rule_name : i \in DOMAIN optimization_rules}

(***************************************************************************)
(* FeedbackManager.identify_improvement_areas                              *)
(* comparison_results: a sequence of ComparisonScore records.  The result  *)
(* is the dict of means ordered worst first: the mean per area and the key *)
(* order.  An empty batch gives the empty dict.  A batch holds at most     *)
(* TopVariations posts, so a mean is kept exactly as a multiple of         *)
(* 1 / (100 * MeanScale).                                                  *)
(***************************************************************************)
MeanScale == 2 * TopVariations

identify_improvement_areas(comparison_results) ==
    LET n == Len(comparison_results)
        means == [a \in AreaSet |->
                    (SumSeq([i \in 1..n |-> comparison_results[i][a]]) * MeanScale)
                        \div n]
    IN  IF n = 0
        THEN [empty |-> TRUE, mean |-> [a \in AreaSet |-> 0], order |-> <<>>]
        ELSE [empty |-> FALSE, mean |-> means, order |-> SortAsc(Areas, means)]

\* h.get(area, default) < 0.7 on a performance_history record
HistoryBelow(h, area, threshold) ==
    IF h.empty THEN DefaultHistoryScore < threshold
    ELSE h.mean[area] < threshold * MeanScale

(***************************************************************************)
(* FeedbackManager.weight_feedback_importance                              *)
(* The weight of an area is                                                *)
(*   base * urgency * stagnation * (1 - mean)                              *)
(* kept as the numerator over the common denominator WeightDenominator:    *)
(* base in hundredths, the two multipliers in tenths, 1 - mean as          *)
(* (100 * MeanScale - mean) / (100 * MeanScale).                           *)
(***************************************************************************)
WeightDenominator == 100 * 10 * 10 * 100 * MeanScale

AreaWeight(area, improvement_areas, history) ==
    LET s == improvement_areas.mean[area]
        urgency_multiplier ==
            IF s < 60 * MeanScale THEN 15 ELSE IF s < 70 * MeanScale THEN 12 ELSE 10
        stagnation_multiplier ==
            IF /\ Len(history) > 2
               /\ \A i \in DOMAIN Suffix(history, HistoryWindow) :
                     HistoryBelow(Suffix(history, HistoryWindow)[i], area, AreaThreshold)
            THEN 13 ELSE 10
    IN  importance_weights[area] * urgency_multiplier * stagnation_multiplier
            * (100 * MeanScale - s)

\* [weight (numerators by area), order (areas, highest weight first)]
weight_feedback_importance(improvement_areas, history) ==
    LET w == [a \in AreaSet |-> IF improvement_areas.empty THEN 0
                                ELSE AreaWeight(a, improvement_areas, history)]
    IN  [weight |-> w, order |-> SortDesc(improvement_areas.order, w)]

(***************************************************************************)
(* FeedbackManager.generate_optimization_rules                             *)
(***************************************************************************)
\* rule.target_score == area or area in rule.target_score: no area name is a
\* proper substring of a catalog target_score, so the test is equality
RuleMatchesArea(rule, area) == rule.target_score = area

\* one condition "area < threshold" of a rule, as the code evaluates it: the
\* looked-up value is the area's weight, and the test is
\*   1.0 - weight > threshold      (a missing area counts as 1.0)
ConditionHolds(condition, weighted_feedback) ==
    IF condition.area \in Range(weighted_feedback.order)
    THEN weighted_feedback.weight[condition.area] * 100
            < (100 - condition.threshold) * WeightDenominator
    ELSE 100 < 100 - condition.threshold

\* the (area, rule) pairs visited by the two nested loops, in visiting order
RuleCandidates(weighted_feedback) ==
    LET top == Prefix(weighted_feedback.order, TopAreas)
        nr == Len(optimization_rules)
    IN  [k \in 1..(Len(top) * nr) |->
            [area |-> top[((k - 1) \div nr) + 1],
             rule |-> optimization_rules[((k - 1) % nr) + 1]]]

\* applicable_rules before sorting; priority is kept as the numerator
\* rule.priority * weight (the common divisor max(w) is applied by the caller)
ApplicableRules(weighted_feedback) ==
    LET Applies(c) ==
            /\ RuleMatchesArea(c.rule, c.area)
            /\ \A i \in DOMAIN c.rule.conditions :
                   ConditionHolds(c.rule.conditions[i], weighted_feedback)
        chosen == SelectSeq(RuleCandidates(weighted_feedback), Applies)
    IN  [i \in DOMAIN chosen |->
            [rule_name |-> chosen[i].rule.rule_name,
             target_score |-> chosen[i].rule.target_score,
             conditions |-> chosen[i].rule.conditions,
             priority |-> chosen[i].rule.priority
                            * weighted_feedback.weight[chosen[i].area]]]

\* applicable_rules.sort(key=priority, reverse=True)
SortedApplicableRules(weighted_feedback) ==
    LET app == ApplicableRules(weighted_feedback)
    IN  SortDesc(app, [r \in Range(app) |-> r.priority])

\* weight / max(w for _, w in weighted_feedback) divides by zero when every
\* weight is zero and a rule applies
RulesDivideByZero(weighted_feedback) ==
    /\ ApplicableRules(weighted_feedback) # <<>>
    /\ \A a \in Range(weighted_feedback.order) : weighted_feedback.weight[a] = 0

generate_optimization_rules_unbounded(weighted_feedback) ==
    IF RulesDivideByZero(weighted_feedback)
    THEN [raised |-> TRUE, rules |-> <<>>]
    ELSE [raised |-> FALSE, rules |-> SortedApplicableRules(weighted_feedback)]

generate_optimization_rules(weighted_feedback) ==
    IF RulesDivideByZero(weighted_feedback)
    THEN [raised |-> TRUE, rules |-> <<>>]
    ELSE [raised |-> FALSE,
          rules |-> Prefix(SortedApplicableRules(weighted_feedback), TopRules)]

(***************************************************************************)
(* FeedbackManager.track_improvement_metrics: the record appended to       *)
(* performance_history (the means of the batch)                            *)
(***************************************************************************)
track_improvement_metrics(comparison_results, history, iter) ==
    LET current_metrics == identify_improvement_areas(comparison_results)
    IN  Append(history, [iteration |-> iter, empty |-> current_metrics.empty,
                         mean |-> current_metrics.mean])

(***************************************************************************)
(* FeedbackManager._calculate_confidence_score, called after the record of *)
(* the batch was appended to performance_history.  Confidence and penalty  *)
(* are in thousandths; statistics.stdev of the overall similarities        *)
(* (hundredths) is rounded down to hundredths.                             *)
(***************************************************************************)
NoConfidence == [confidence |-> -1, decline_penalty |-> 0]

\* the largest r with r * r <= v
ISqrt(v) == CHOOSE r \in 0..v : r * r <= v /\ (r + 1) * (r + 1) > v

\* statistics.stdev(scores) for two or more scores
stdev(scores) ==
    LET n == Len(scores)
        total == SumSeq(scores)
        squares == SumSeq([i \in 1..n |-> (n * scores[i] - total) * (n * scores[i] - total)])
    IN  ISqrt(squares \div (n * n * (n - 1)))

\* h.get("overall_similarity", 0.0) of a performance_history record
HistoryOverall(h) == IF h.empty THEN 0 ELSE h.mean["overall_similarity"]

\* variant: the penalty is applied only when each of the last three records
\* is below the one before
decline_penalty_strict_chain(history) ==
    LET n == Len(history)
    IN  IF n >= 3 /\ HistoryOverall(history[n]) < HistoryOverall(history[n - 1])
                  /\ HistoryOverall(history[n - 1]) < HistoryOverall(history[n - 2])
        THEN 200 ELSE 0

\* decline_penalty: 0.2 when recent_trend[2] < recent_trend[0] for the last
\* three records
decline_penalty(history) ==
    LET n == Len(history)
    IN  IF n >= 3 /\ HistoryOverall(history[n]) < HistoryOverall(history[n - 2])
        THEN 200 ELSE 0

calculate_confidence_score(comparison_results, iter, history) ==
    IF comparison_results = <<>>
    THEN [confidence |-> 0, decline_penalty |-> 0]
    ELSE LET overall_scores == [i \in DOMAIN comparison_results |->
                                    comparison_results[i].overall_similarity]
             consistency == 100 - (IF Len(overall_scores) > 1
                                   THEN stdev(overall_scores) ELSE 0)
             iteration_confidence == Min2(iter, 10)
             confidence == (consistency * 6 + iteration_confidence * 40)
                               - decline_penalty(history)
         IN  [confidence |-> Max2(0, Min2(1000, confidence)),
              decline_penalty |-> decline_penalty(history)]

(***************************************************************************)
(* FeedbackManager.generate_feedback_summary                               *)
(* Result: raised (ZeroDivisionError of generate_optimization_rules, before*)
(* the history is touched), the new performance_history and the summary.   *)
(***************************************************************************)
NoSummary ==
    [iteration |-> 0, best_performing_prompt |-> "unknown",
     optimization_recommendations |-> <<>>, worst_performing_areas |-> <<>>]

generate_feedback_summary(comparison_results, variations, history, iter) ==
    LET improvement_areas == identify_improvement_areas(comparison_results)
        weighted_feedback == weight_feedback_importance(improvement_areas, history)
        rules == generate_optimization_rules(weighted_feedback)
        Weak(a) == improvement_areas.mean[a] < AreaThreshold * MeanScale
    IN  IF rules.raised
        THEN [raised |-> TRUE, history |-> history, summary |-> NoSummary]
        ELSE [raised |-> FALSE,
              history |-> track_improvement_metrics(comparison_results, history, iter),
              summary |->
                [iteration |-> iter,
                 best_performing_prompt |->
                    IF comparison_results # <<>> /\ variations # <<>>
                    THEN (LET best_idx ==
                                ArgMaxFirst([i \in DOMAIN comparison_results |->
                                    comparison_results[i].overall_similarity])
                          IN  IF best_idx <= Len(variations)
                              THEN variations[best_idx].name ELSE "unknown")
                    ELSE "unknown",
                 optimization_recommendations |->
                    [i \in DOMAIN rules.rules |-> rules.rules[i].rule_name],
                 worst_performing_areas |->
                    Prefix(SelectSeq(improvement_areas.order, Weak), 3)]]

(***************************************************************************)
(* PromptGenerator                                                         *)
(* A prompt text is kept as the set of text blocks it is concatenated from.*)
(***************************************************************************)
\* the voice keywords that occur in base_prompt (the style guide of
\* generate_blog_post.py contains "data-driven" only)
BasePromptKeywords == {"data-driven"}

voice_keywords == {"analytical", "data-driven", "practical", "forward-looking"}

MissingVoiceGap(keyword) ==
    CASE keyword = "analytical" -> "missing_voice_analytical"
      [] keyword = "data-driven" -> "missing_voice_data-driven"
      [] keyword = "practical" -> "missing_voice_practical"
      [] keyword = "forward-looking" -> "missing_voice_forward-looking"

MissingVoiceGaps == {MissingVoiceGap(k) : k \in voice_keywords}

\* the performance_feedback dict built by _run_single_iteration for rounds > 1
PerformanceFeedback(previous_best) ==
    [overall_similarity |-> previous_best, content_depth |-> 50,
     style_similarity |-> 60, structural_match |-> 55]

LowGap(key) ==
    CASE key = "overall_similarity" -> "low_overall_similarity"
      [] key = "content_depth" -> "low_content_depth"
      [] key = "style_similarity" -> "low_style_similarity"
      [] key = "structural_match" -> "low_structural_match"

\* PromptGenerator.analyze_prompt_gaps; has_feedback is FALSE in round 1
analyze_prompt_gaps(style, has_feedback, performance_feedback) ==
    (IF style.avg_paragraph_length < 30 THEN {"paragraphs_too_short"}
     ELSE IF style.avg_paragraph_length > 60 THEN {"paragraphs_too_long"} ELSE {})
    \cup (IF style.data_points_per_post < 2 THEN {"insufficient_data_points"} ELSE {})
    \cup {MissingVoiceGap(k) : k \in voice_keywords \ BasePromptKeywords}
    \cup (IF has_feedback
          THEN {LowGap(k) : k \in {key \in DOMAIN performance_feedback :
                                        performance_feedback[key] < 70}}
          ELSE {})

\* PromptGenerator.generate_prompt_variations: name, expected_score_improvement
\* (hundredths) and prompt_text of each variation, in creation order
generate_prompt_variations(style, gaps) ==
    (IF "insufficient_data_points" \in gaps \/ "low_content_quality" \in gaps
     THEN << [name |-> "enhanced_data_integration", expected_score_improvement |-> 15,
              prompt_text |-> {"base_prompt", "data_emphasis"}] >>
     ELSE <<>>)
    \o (IF "paragraphs_too_long" \in gaps \/ "low_structure" \in gaps
        THEN << [name |-> "structured_flow", expected_score_improvement |-> 12,
                 prompt_text |-> {"base_prompt", "structure_emphasis"}] >>
        ELSE <<>>)
    \o (IF (gaps \cap MissingVoiceGaps) # {} \/ "low_writing_style" \in gaps
        THEN << [name |-> "voice_enhanced", expected_score_improvement |-> 18,
                 prompt_text |-> {"base_prompt", "voice_emphasis"}] >>
        ELSE <<>>)
    \o (IF style.topic_distribution # <<>>
        THEN << [name |-> "topic_optimized", expected_score_improvement |-> 10,
                 prompt_text |-> {"base_prompt", "topic_emphasis"}] >>
        ELSE <<>>)
    \o << [name |-> "comprehensive", expected_score_improvement |-> 25,
           prompt_text |-> {"base_prompt", "comprehensive_additions"}] >>

\* PromptGenerator.generate_iterative_improvements as called by
\* _run_single_iteration (round 1 without feedback, later rounds with the
\* previous record's best score)
generate_iterative_improvements(style, iter, results) ==
    LET has_feedback == iter # 1
        feedback == PerformanceFeedback(IF has_feedback
                                        THEN Last(results).best_score_this_iteration
                                        ELSE 0)
    IN  generate_prompt_variations(style,
            analyze_prompt_gaps(style, has_feedback, feedback))

\* the improvement_text block a catalog rule would add to a prompt
\* (FeedbackManager.create_next_iteration_prompt appends one per rule)
ImprovementText(rule_name) ==
    CASE rule_name = "enhance_data_integration" -> "ENHANCED DATA REQUIREMENTS"
      [] rule_name = "strengthen_voice_authenticity" -> "TOM TUNGUZ VOICE ENHANCEMENT"
      [] rule_name = "improve_structural_flow" -> "ENHANCED STRUCTURE GUIDELINES"
      [] rule_name = "deepen_insight_quality" -> "INSIGHT DEPTH ENHANCEMENT"
      [] rule_name = "strengthen_opening_hook" -> "POWERFUL OPENING REQUIREMENTS"
      [] rule_name = "enhance_conclusion_impact" -> "IMPACTFUL CONCLUSION REQUIREMENTS"

\* FeedbackManager.create_next_iteration_prompt: base prompt, one block per
\* recommended rule, and the iteration guidance
create_next_iteration_prompt(summary, base_prompt) ==
    base_prompt
    \cup {ImprovementText(summary.optimization_recommendations[i]) :
            i \in DOMAIN summary.optimization_recommendations}
    \cup {"iteration_guidance"}

(***************************************************************************)
(* ComparativeEvaluator.comprehensive_comparison                           *)
(* The four sub-analyses are text heuristics; their result dicts are the   *)
(* inputs here.  Without the LLM judge the overall similarity is the blend *)
(*   0.25 structural + 0.30 style + 0.25 content_depth + 0.20 data_usage.  *)
(***************************************************************************)
comprehensive_comparison(sub) ==
    LET structural_match == sub.structural.overall
        style_similarity == sub.style.overall
        content_depth == sub.content.overall
        data_usage_match == sub.data.overall
        hook_effectiveness == sub.structural.hook_quality
        conclusion_strength == sub.structural.conclusion_quality
    IN  [overall_similarity |->
            (25 * structural_match + 30 * style_similarity
                + 25 * content_depth + 20 * data_usage_match) \div 100,
         structural_match |-> structural_match,
         style_similarity |-> style_similarity,
         content_depth |-> content_depth,
         data_usage_match |-> data_usage_match,
         hook_effectiveness |-> hook_effectiveness,
         conclusion_strength |-> conclusion_strength,
         voice_authenticity |-> sub.style.tone_match,
         improvement_areas |->
            (IF structural_match < 70 THEN {"structure_flow"} ELSE {})
            \cup (IF style_similarity < 70 THEN {"voice_authenticity"} ELSE {})
            \cup (IF content_depth < 70 THEN {"insight_depth"} ELSE {})
            \cup (IF data_usage_match < 70 THEN {"data_integration"} ELSE {})
            \cup (IF hook_effectiveness < 60 THEN {"opening_hook"} ELSE {})
            \cup (IF conclusion_strength < 60 THEN {"conclusion_impact"} ELSE {})]

(***************************************************************************)
(* ComparativeEvaluator: the text heuristics                               *)
(* A text is a sequence of paragraphs and a paragraph a non-empty sequence *)
(* of words of the vocabulary below.  It stands for the string in which    *)
(* the words of a paragraph are separated by one blank, every paragraph    *)
(* ends with a full stop and paragraphs are separated by a blank line: on  *)
(* such a string split('\n\n') yields the paragraphs, split() the words    *)
(* and re.split(r'[.!?]+') one sentence per paragraph.  The scores of the  *)
(* heuristics are exact rationals [n, d] in lowest terms, d > 0.           *)
(***************************************************************************)
Abs(x) == IF x < 0 THEN -x ELSE x

RECURSIVE GCD(_, _)
GCD(a, b) == IF b = 0 THEN a ELSE GCD(b, a % b)

Q(n, d) == LET g == GCD(Abs(n), d) IN [n |-> n \div g, d |-> d \div g]

QZero == [n |-> 0, d |-> 1]

QOne == [n |-> 1, d |-> 1]

QHalf == [n |-> 1, d |-> 2]

QAdd(x, y) == Q(x.n * y.d + y.n * x.d, x.d * y.d)

QSub(x, y) == Q(x.n * y.d - y.n * x.d, x.d * y.d)

QMul(x, y) == Q(x.n * y.n, x.d * y.d)

\* x / y for y > 0
QDiv(x, y) == Q(x.n * y.d, x.d * y.n)

QLess(x, y) == x.n * y.d < y.n * x.d

QLeq(x, y) == x.n * y.d <= y.n * x.d

QMin(x, y) == IF QLess(y, x) THEN y ELSE x

QMax(x, y) == IF QLess(x, y) THEN y ELSE x

QAbs(x) == [n |-> Abs(x.n), d |-> x.d]

\* 1.0 - abs(a - b) / max(a, b, 1)
normalized_match(a, b) ==
    QSub(QOne, QDiv(QAbs(QSub(a, b)), QMax(QMax(a, b), QOne)))

\* sum(xs) / len(xs) of a non-empty sequence of integers
average(xs) == Q(SumSeq(xs), Len(xs))

\* the words a text is written with
Vocabulary == {"Data", "will", "use", "trend", "5%"}

\* the characters of a word
chars(word) ==
    CASE word = "Data" -> <<"D", "a", "t", "a">>
      [] word = "will" -> <<"w", "i", "l", "l">>
      [] word = "use" -> <<"u", "s", "e">>
      [] word = "trend" -> <<"t", "r", "e", "n", "d">>
      [] word = "5%" -> <<"5", "%">>

Digits == {"0", "1", "2", "3", "4", "5", "6", "7", "8", "9"}

\* str.lower on the characters of the vocabulary
lower(s) == [i \in DOMAIN s |-> IF s[i] = "D" THEN "d" ELSE s[i]]

\* the string of a paragraph: its words separated by blanks, then a full stop
RECURSIVE join_words(_)
join_words(paragraph) ==
    IF Len(paragraph) = 0 THEN <<>>
    ELSE IF Len(paragraph) = 1 THEN chars(paragraph[1])
    ELSE chars(paragraph[1]) \o <<" ">> \o join_words(Tail(paragraph))

paragraph_string(paragraph) == join_words(paragraph) \o <<".">>

\* the string of a text: its paragraphs separated by a blank line
RECURSIVE content_string(_)
content_string(text) ==
    IF Len(text) = 0 THEN <<>>
    ELSE IF Len(text) = 1 THEN paragraph_string(text[1])
    ELSE paragraph_string(text[1]) \o <<"\n", "\n">> \o content_string(Tail(text))

\* str.count: the non-overlapping occurrences of sub in s, from position i on
RECURSIVE count_from(_, _, _)
count_from(s, sub, i) ==
    IF i + Len(sub) - 1 > Len(s) THEN 0
    ELSE IF SubSeq(s, i, i + Len(sub) - 1) = sub
         THEN 1 + count_from(s, sub, i + Len(sub))
         ELSE count_from(s, sub, i + 1)

count(s, sub) == count_from(s, sub, 1)

\* sum(s.count(word) for word in words)
count_all(s, words) == SumSeq([k \in DOMAIN words |-> count(s, words[k])])

\* the words of a text, in order
RECURSIVE words_of(_)
words_of(text) == IF Len(text) = 0 THEN <<>> ELSE text[1] \o words_of(Tail(text))

\* difflib.SequenceMatcher: the length of the common run of a from i and b from j
RECURSIVE match_length(_, _, _, _, _, _)
match_length(a, b, i, j, ahi, bhi) ==
    IF i < ahi /\ j < bhi /\ a[i] = b[j]
    THEN 1 + match_length(a, b, i + 1, j + 1, ahi, bhi)
    ELSE 0

\* SequenceMatcher.find_longest_match on a[alo..ahi-1], b[blo..bhi-1]: the
\* longest common block; of those the one starting earliest in a, then in b
find_longest_match(a, b, alo, ahi, blo, bhi) ==
    LET length == [p \in (alo..(ahi - 1)) \X (blo..(bhi - 1)) |->
                      match_length(a, b, p[1], p[2], ahi, bhi)]
        size == CHOOSE k \in Range(length) : \A m \in Range(length) : m <= k
        longest == {p \in DOMAIN length : length[p] = size}
        first == CHOOSE p \in longest :
                    \A q \in longest : p[1] < q[1] \/ (p[1] = q[1] /\ p[2] <= q[2])
    IN  [a |-> first[1], b |-> first[2], size |-> size]

\* SequenceMatcher.get_matching_blocks: the total size of the blocks found by
\* splitting around the longest match, left and right, recursively
RECURSIVE matching_size(_, _, _, _, _, _)
matching_size(a, b, alo, ahi, blo, bhi) ==
    IF alo >= ahi \/ blo >= bhi THEN 0
    ELSE LET m == find_longest_match(a, b, alo, ahi, blo, bhi)
         IN  IF m.size = 0 THEN 0
             ELSE m.size + matching_size(a, b, alo, m.a, blo, m.b)
                         + matching_size(a, b, m.a + m.size, ahi, m.b + m.size, bhi)

\* SequenceMatcher.ratio: 2.0 * matches / (len(a) + len(b)); 1.0 for two empty strings
ratio(a, b) ==
    IF Len(a) + Len(b) = 0 THEN QOne
    ELSE Q(2 * matching_size(a, b, 1, Len(a) + 1, 1, Len(b) + 1), Len(a) + Len(b))

\* _calculate_text_similarity
calculate_text_similarity(text1, text2) ==
    IF Len(text1) = 0 \/ Len(text2) = 0 THEN QZero
    ELSE ratio(lower(text1), lower(text2))

\* tone keywords: analytical
analytical_words ==
    << <<"d", "a", "t", "a">>,
       <<"a", "n", "a", "l", "y", "s", "i", "s">>,
       <<"e", "v", "i", "d", "e", "n", "c", "e">>,
       <<"r", "e", "s", "e", "a", "r", "c", "h">>,
       <<"s", "t", "u", "d", "y">>,
       <<"r", "e", "s", "u", "l", "t", "s">> >>

\* tone keywords: confident
confident_words ==
    << <<"w", "i", "l", "l">>,
       <<"m", "u", "s", "t">>,
       <<"c", "l", "e", "a", "r", "l", "y">>,
       <<"o", "b", "v", "i", "o", "u", "s", "l", "y">>,
       <<"d", "e", "m", "o", "n", "s", "t", "r", "a", "t", "e", "s">> >>

\* tone keywords: practical
practical_words ==
    << <<"i", "m", "p", "l", "e", "m", "e", "n", "t">>,
       <<"a", "p", "p", "l", "y">>,
       <<"u", "s", "e">>,
       <<"a", "d", "o", "p", "t">>,
       <<"s", "t", "r", "a", "t", "e", "g", "y">> >>

\* insight vocabulary of content_depth_analysis
insight_keywords ==
    << <<"t", "r", "e", "n", "d">>,
       <<"s", "h", "i", "f", "t">>,
       <<"t", "r", "a", "n", "s", "f", "o", "r", "m", "a", "t", "i", "o", "n">>,
       <<"d", "i", "s", "r", "u", "p", "t", "i", "o", "n">>,
       <<"o", "p", "p", "o", "r", "t", "u", "n", "i", "t", "y">>,
       <<"c", "h", "a", "l", "l", "e", "n", "g", "e">>,
       <<"a", "d", "v", "a", "n", "t", "a", "g", "e">>,
       <<"s", "t", "r", "a", "t", "e", "g", "y">>,
       <<"a", "p", "p", "r", "o", "a", "c", "h">>,
       <<"s", "o", "l", "u", "t", "i", "o", "n">>,
       <<"i", "m", "p", "l", "i", "c", "a", "t", "i", "o", "n">>,
       <<"r", "e", "s", "u", "l", "t">>,
       <<"c", "o", "n", "s", "e", "q", "u", "e", "n", "c", "e">>,
       <<"o", "u", "t", "c", "o", "m", "e">>,
       <<"i", "m", "p", "a", "c", "t">> >>

\* ComparativeEvaluator.structural_comparison
structural_comparison(ai_content, published_content) ==
    LET ai_paragraphs == ai_content
        pub_paragraphs == published_content
        paragraph_count_score ==
            normalized_match(Q(Len(ai_paragraphs), 1), Q(Len(pub_paragraphs), 1))
        ai_words == Len(words_of(ai_content))
        pub_words == Len(words_of(published_content))
        word_count_score == normalized_match(Q(ai_words, 1), Q(pub_words, 1))
        ai_para_lengths == [k \in DOMAIN ai_paragraphs |-> Len(ai_paragraphs[k])]
        pub_para_lengths == [k \in DOMAIN pub_paragraphs |-> Len(pub_paragraphs[k])]
        para_length_score ==
            IF Len(ai_para_lengths) > 0 /\ Len(pub_para_lengths) > 0
            THEN normalized_match(average(ai_para_lengths), average(pub_para_lengths))
            ELSE QZero
        ai_hook == IF Len(ai_paragraphs) > 0
                   THEN paragraph_string(ai_paragraphs[1]) ELSE <<>>
        pub_hook == IF Len(pub_paragraphs) > 0
                    THEN paragraph_string(pub_paragraphs[1]) ELSE <<>>
        hook_score == calculate_text_similarity(ai_hook, pub_hook)
        ai_conclusion == IF Len(ai_paragraphs) > 0
                         THEN paragraph_string(Last(ai_paragraphs)) ELSE <<>>
        pub_conclusion == IF Len(pub_paragraphs) > 0
                          THEN paragraph_string(Last(pub_paragraphs)) ELSE <<>>
        conclusion_score == calculate_text_similarity(ai_conclusion, pub_conclusion)
    IN  [paragraph_count |-> paragraph_count_score,
         word_count |-> word_count_score,
         paragraph_length |-> para_length_score,
         hook_quality |-> hook_score,
         conclusion_quality |-> conclusion_score,
         overall |->
            QDiv(QAdd(QAdd(QAdd(QAdd(paragraph_count_score, word_count_score),
                                para_length_score), hook_score), conclusion_score),
                 Q(5, 1))]

\* The matches of the five voice_patterns that one word of a text contributes.
\* Only the future-oriented pattern matches a word of the vocabulary: "5%"
\* is followed by a blank or a full stop, where \b\d+%\b finds no word
\* boundary after the percent sign, and no text ends with a question mark.
voice_pattern_matches(word) == IF word = "will" THEN 1 ELSE 0

\* min(ai / pub, 1.0) if pub > 0 else (1.0 if ai == 0 else 0.0)
capped_ratio_or_default(ai_count, pub_count) ==
    IF pub_count > 0 THEN QMin(Q(ai_count, pub_count), QOne)
    ELSE IF ai_count = 0 THEN QOne ELSE QZero

\* one round of the tone loop: what the pair of counts adds to tone_score
tone_term(ai_count, pub_count) ==
    IF pub_count > 0 THEN QMin(Q(ai_count, pub_count), QOne)
    ELSE IF ai_count = 0 THEN QOne ELSE QZero

\* ComparativeEvaluator.style_similarity_score
style_similarity_score(ai_content, published_content) ==
    LET ai_string == lower(content_string(ai_content))
        pub_string == lower(content_string(published_content))
        ai_all == words_of(ai_content)
        pub_all == words_of(published_content)
        ai_pattern_matches ==
            SumSeq([k \in DOMAIN ai_all |-> voice_pattern_matches(ai_all[k])])
        pub_pattern_matches ==
            SumSeq([k \in DOMAIN pub_all |-> voice_pattern_matches(pub_all[k])])
        pattern_score == capped_ratio_or_default(ai_pattern_matches, pub_pattern_matches)
        ai_sentences == ai_content
        pub_sentences == published_content
        ai_avg_sentence ==
            IF Len(ai_sentences) > 0
            THEN average([k \in DOMAIN ai_sentences |-> Len(ai_sentences[k])])
            ELSE QZero
        pub_avg_sentence ==
            IF Len(pub_sentences) > 0
            THEN average([k \in DOMAIN pub_sentences |-> Len(pub_sentences[k])])
            ELSE QZero
        sentence_score == normalized_match(ai_avg_sentence, pub_avg_sentence)
        total_comparisons == 3
        tone_score ==
            QDiv(QAdd(QAdd(tone_term(count_all(ai_string, analytical_words),
                                     count_all(pub_string, analytical_words)),
                           tone_term(count_all(ai_string, confident_words),
                                     count_all(pub_string, confident_words))),
                      tone_term(count_all(ai_string, practical_words),
                                count_all(pub_string, practical_words))),
                 Q(total_comparisons, 1))
    IN  [voice_patterns |-> pattern_score,
         sentence_structure |-> sentence_score,
         tone_match |-> tone_score,
         overall |-> QDiv(QAdd(QAdd(pattern_score, sentence_score), tone_score),
                          Q(3, 1))]

\* what the Battle evaluator can do: raise, or return a score in [0, 1]
BattleOutcomes ==
    {[raised |-> TRUE, score |-> QZero]}
    \cup {[raised |-> FALSE, score |-> s] : s \in {QZero, QHalf, QOne}}

\* the matches of \b[A-Z][a-z]+\b|\b\d+(?:,\d+)*(?:\.\d+)?\b in one word: a
\* capitalised word, or the number of a percentage
specifics_matches(word) == IF word \in {"Data", "5%"} THEN 1 ELSE 0

\* ComparativeEvaluator.content_depth_analysis
content_depth_analysis(ai_content, published_content, battle_result) ==
    LET battle_score == IF battle_result.raised THEN QHalf ELSE battle_result.score
        ai_paragraphs == ai_content
        pub_paragraphs == published_content
        ai_insights ==
            SumSeq([k \in DOMAIN ai_paragraphs |->
                      count_all(lower(paragraph_string(ai_paragraphs[k])),
                                insight_keywords)])
        pub_insights ==
            SumSeq([k \in DOMAIN pub_paragraphs |->
                      count_all(lower(paragraph_string(pub_paragraphs[k])),
                                insight_keywords)])
        insight_density_score == QMin(Q(ai_insights, Max2(pub_insights, 1)), QOne)
        ai_all == words_of(ai_content)
        pub_all == words_of(published_content)
        ai_specifics == SumSeq([k \in DOMAIN ai_all |-> specifics_matches(ai_all[k])])
        pub_specifics == SumSeq([k \in DOMAIN pub_all |-> specifics_matches(pub_all[k])])
        specificity_score == QMin(Q(ai_specifics, Max2(pub_specifics, 1)), QOne)
        novelty_score == battle_score
    IN  [battle_comparison |-> battle_score,
         insight_density |-> insight_density_score,
         specificity |-> specificity_score,
         novelty |-> novelty_score,
         overall |-> QDiv(QAdd(QAdd(QAdd(battle_score, insight_density_score),
                                    specificity_score), novelty_score),
                          Q(4, 1))]

\* The strings the four patterns of _extract_data_points find in one word:
\* \d+% finds the percentage; no word of the vocabulary is a dollar amount, a
\* number with a unit or a growth rate.
data_points_of(word) == IF word = "5%" THEN << chars(word) >> ELSE <<>>

\* ComparativeEvaluator._extract_data_points
RECURSIVE extract_data_points_of_words(_)
extract_data_points_of_words(ws) ==
    IF Len(ws) = 0 THEN <<>>
    ELSE data_points_of(ws[1]) \o extract_data_points_of_words(Tail(ws))

extract_data_points(content) == extract_data_points_of_words(words_of(content))

\* re.search(r'\d', dp)
has_digit(dp) == \E k \in DOMAIN dp : dp[k] \in Digits

\* len(dp.split()) of a data point without leading or trailing blanks
split_length(dp) == IF Len(dp) = 0 THEN 0 ELSE 1 + count(dp, <<" ">>)

\* data_usage_comparison with a quality ratio that is 1.0 whenever the
\* published post has no data point
data_usage_comparison_default_one(ai_content, published_content) ==
    LET ai_count == Len(extract_data_points(ai_content))
        pub_count == Len(extract_data_points(published_content))
        count_score == normalized_match(Q(ai_count, 1), Q(pub_count, 1))
        quality_score ==
            IF pub_count > 0 THEN QMin(Q(ai_count, pub_count), QOne) ELSE QOne
    IN  [count_match |-> count_score,
         quality_match |-> quality_score,
         context_integration |-> QOne,
         overall |-> QDiv(QAdd(QAdd(count_score, quality_score), QOne), Q(3, 1))]

\* ComparativeEvaluator.data_usage_comparison
data_usage_comparison(ai_content, published_content) ==
    LET ai_data_points == extract_data_points(ai_content)
        pub_data_points == extract_data_points(published_content)
        count_score ==
            normalized_match(Q(Len(ai_data_points), 1), Q(Len(pub_data_points), 1))
        ai_specific ==
            Cardinality({k \in DOMAIN ai_data_points : has_digit(ai_data_points[k])})
        pub_specific ==
            Cardinality({k \in DOMAIN pub_data_points : has_digit(pub_data_points[k])})
        quality_score ==
            IF pub_specific > 0
            THEN QMin(Q(ai_specific, Max2(pub_specific, 1)), QOne)
            ELSE IF ai_specific = 0 THEN QOne ELSE QZero
        ai_contextual ==
            Cardinality({k \in DOMAIN ai_data_points :
                            split_length(ai_data_points[k]) > 3})
        pub_contextual ==
            Cardinality({k \in DOMAIN pub_data_points :
                            split_length(pub_data_points[k]) > 3})
        context_score ==
            IF pub_contextual > 0
            THEN QMin(Q(ai_contextual, Max2(pub_contextual, 1)), QOne)
            ELSE IF ai_contextual = 0 THEN QOne ELSE QZero
    IN  [count_match |-> count_score,
         quality_match |-> quality_score,
         context_integration |-> context_score,
         overall |-> QDiv(QAdd(QAdd(count_score, quality_score), context_score),
                          Q(3, 1))]

\* What generate_content of the judge model can do: raise, answer without a
\* "Score:" line, or answer with "Score: <number>".
JudgeScores == {0, 50, 100, 150}

JudgeResponses ==
    {[kind |-> "exception", score |-> 0], [kind |-> "no_score", score |-> 0]}
    \cup {[kind |-> "score", score |-> s] : s \in JudgeScores}

\* the value llm_judge_score has when the judge was not asked
None == [n |-> -1, d |-> 0]

\* ComparativeEvaluator.llm_judge_evaluation: the score it returns
llm_judge_evaluation(use_llm_judge, has_gemini_model, response) ==
    IF ~use_llm_judge \/ ~has_gemini_model THEN QZero
    ELSE IF response.kind = "exception" THEN QZero
    ELSE LET score == IF response.kind = "score" THEN response.score ELSE 0
         IN  Q(score, 100)

\* comprehensive_comparison, the four sub-analyses of two texts
text_analyses(ai_content, published_content, battle_result) ==
    [structural |-> structural_comparison(ai_content, published_content),
     style |-> style_similarity_score(ai_content, published_content),
     content |-> content_depth_analysis(ai_content, published_content, battle_result),
     data |-> data_usage_comparison(ai_content, published_content)]

\* comprehensive_comparison, from the results of the sub-analyses on: the
\* judge, the blend and the improvement areas, in exact arithmetic
comprehensive_comparison_exact(sub, use_llm_judge, has_gemini_model, response) ==
    LET llm_judge_score ==
            IF use_llm_judge
            THEN llm_judge_evaluation(use_llm_judge, has_gemini_model, response)
            ELSE None
        structural_match == sub.structural.overall
        style_similarity == sub.style.overall
        content_depth == sub.content.overall
        data_usage_match == sub.data.overall
        hook_effectiveness == sub.structural.hook_quality
        conclusion_strength == sub.structural.conclusion_quality
        overall_similarity ==
            IF use_llm_judge /\ llm_judge_score # None
            THEN QAdd(QAdd(QAdd(QAdd(QMul(llm_judge_score, Q(60, 100)),
                                     QMul(structural_match, Q(10, 100))),
                                QMul(style_similarity, Q(15, 100))),
                           QMul(content_depth, Q(10, 100))),
                      QMul(data_usage_match, Q(5, 100)))
            ELSE QAdd(QAdd(QAdd(QMul(structural_match, Q(25, 100)),
                                QMul(style_similarity, Q(30, 100))),
                           QMul(content_depth, Q(25, 100))),
                      QMul(data_usage_match, Q(20, 100)))
    IN  [overall_similarity |-> overall_similarity,
         structural_match |-> structural_match,
         style_similarity |-> style_similarity,
         content_depth |-> content_depth,
         data_usage_match |-> data_usage_match,
         hook_effectiveness |-> hook_effectiveness,
         conclusion_strength |-> conclusion_strength,
         voice_authenticity |-> sub.style.tone_match,
         improvement_areas |->
            (IF QLess(structural_match, Q(7, 10)) THEN {"structure_flow"} ELSE {})
            \cup (IF QLess(style_similarity, Q(7, 10))
                  THEN {"voice_authenticity"} ELSE {})
            \cup (IF QLess(content_depth, Q(7, 10)) THEN {"insight_depth"} ELSE {})
            \cup (IF QLess(data_usage_match, Q(7, 10))
                  THEN {"data_integration"} ELSE {})
            \cup (IF QLess(hook_effectiveness, Q(6, 10))
                  THEN {"opening_hook"} ELSE {})
            \cup (IF QLess(conclusion_strength, Q(6, 10))
                  THEN {"conclusion_impact"} ELSE {}),
         llm_judge_score |-> llm_judge_score]

(***************************************************************************)
(* State                                                                   *)
(***************************************************************************)
VARIABLES
    pc,                   \* position in run_complete_cycle
    max_iterations,       \* IterativeImprover.max_iterations
    num_iterations,       \* argument of run_complete_cycle
    blog_generator,       \* TRUE iff self.blog_generator is not None
    style_analysis,       \* result of post_analyzer.analyze_posts
    iteration,            \* loop variable of run_complete_cycle (0 before the loop)
    iteration_results,    \* IterativeImprover.iteration_results
    best_overall_score,   \* IterativeImprover.best_overall_score
    best_prompt,          \* IterativeImprover.best_prompt
    best_candidate_prompts, \* the prompt texts behind the best posts of the round that set it
    stagnation_count,     \* IterativeImprover.stagnation_count
    exit_branch,          \* the return statement _check_convergence last took
    round_error,          \* the exception the latest round ended with ("none": recorded)
    performance_history,  \* FeedbackManager.performance_history
    prompt_variations,    \* PromptGenerator.prompt_variations
    feedback_summary,     \* the FeedbackSummary of the last round that produced one
    final_results,        \* the dict returned by _generate_final_summary
    fm_stage,             \* position in the stand-alone FeedbackManager run
    fm_batch,             \* its comparison_results
    fm_weighted,          \* its weighted_feedback
    fm_rules,             \* its generate_optimization_rules result
    fm_confidence,        \* its _calculate_confidence_score result
    ev_stage,             \* position of the stand-alone ComparativeEvaluator call
    ev_call,              \* the method of the evaluator or improver that is called
    ev_use_llm_judge,     \* ComparativeEvaluator.use_llm_judge after __init__
    ev_ai_posts,          \* the argument ai_posts
    ev_published_posts,   \* the argument published_posts
    ev_comparisons,       \* the list the call returns
    gen_pc,               \* position in BlogGenerator.generate_variations
    gen_cycle,            \* its argument cycle
    gen_models,           \* BlogGenerator.models: the names with a client
    gen_tasks,            \* its generation_tasks, in submission order
    gen_futures,          \* the future of every submitted task
    gen_collected,        \* the futures as_completed has yielded
    gen_variations,       \* its list variations
    gen_stats,            \* BlogGenerator.stats: the counter total_generated
    bt_pc,                \* position of the program that uses the tracker
    bt_api_key,           \* whether BRAINTRUST_API_KEY was set at construction
    bt_tracker,           \* whether the program holds a BraintrustTracker
    bt_enabled,           \* BraintrustTracker.enabled
    bt_experiment,        \* BraintrustTracker.experiment: 0 for None, else its id
    bt_opened,            \* the number of experiments braintrust.init has created
    bt_finished,          \* the experiments finish_experiment has closed
    bt_result,            \* what the last start_experiment / finish_experiment returned
    bt_raised,            \* whether a call of the tracker has raised
    bt_calls,             \* the number of calls made on the tracker directly
    rt_pc,                \* position of the call of a model client
    rt_retry_attempts,    \* ModelClient.retry_attempts
    rt_retry_delay,       \* ModelClient.retry_delay
    rt_outcomes,          \* what _call_api does on its successive calls
    rt_retry,             \* the outcome of retry_with_backoff
    rt_response,          \* the ModelResponse of generate
    rt_variation          \* what _generate_single_variation makes of it

vars ==
    << pc, max_iterations, num_iterations, blog_generator, style_analysis, iteration,
       iteration_results, best_overall_score, best_prompt,
       best_candidate_prompts, stagnation_count,
       exit_branch, round_error, performance_history, prompt_variations,
       feedback_summary, final_results, fm_stage, fm_batch, fm_weighted, fm_rules,
       fm_confidence,
       ev_stage, ev_call, ev_use_llm_judge, ev_ai_posts, ev_published_posts,
       ev_comparisons, gen_pc, gen_cycle, gen_models, gen_tasks, gen_futures,
       gen_collected, gen_variations, gen_stats, bt_pc, bt_api_key, bt_tracker,
       bt_enabled, bt_experiment, bt_opened, bt_finished, bt_result, bt_raised,
       bt_calls, rt_pc, rt_retry_attempts, rt_retry_delay, rt_outcomes, rt_retry,
       rt_response, rt_variation >>

orchestrator_vars ==
    << pc, max_iterations, num_iterations, blog_generator, style_analysis, iteration,
       iteration_results, best_overall_score, best_prompt,
       best_candidate_prompts, stagnation_count,
       exit_branch, round_error, prompt_variations, feedback_summary,
       final_results >>

fm_vars == << fm_stage, fm_batch, fm_weighted, fm_rules, fm_confidence >>

ev_vars ==
    << ev_stage, ev_call, ev_use_llm_judge, ev_ai_posts, ev_published_posts,
       ev_comparisons >>

gen_vars ==
    << gen_pc, gen_cycle, gen_models, gen_tasks, gen_futures, gen_collected,
       gen_variations, gen_stats >>

bt_vars ==
    << bt_pc, bt_api_key, bt_tracker, bt_enabled, bt_experiment, bt_opened,
       bt_finished, bt_result, bt_raised, bt_calls >>

rt_vars ==
    << rt_pc, rt_retry_attempts, rt_retry_delay, rt_outcomes, rt_retry, rt_response,
       rt_variation >>

\* the tracker is not followed: it is as BraintrustTracker.__init__ leaves it
\* without an API key
NoTrackerCall ==
    /\ bt_pc = "idle"
    /\ bt_api_key = FALSE
    /\ bt_tracker = TRUE
    /\ bt_enabled = FALSE
    /\ bt_experiment = 0
    /\ bt_opened = 0
    /\ bt_finished = {}
    /\ bt_result = "none"
    /\ bt_raised = FALSE
    /\ bt_calls = 0

\* no call of a model client is under way
NoClientCall ==
    /\ rt_pc = "idle"
    /\ rt_retry_attempts = 0
    /\ rt_retry_delay = 0
    /\ rt_outcomes = <<>>
    /\ rt_retry = [kind |-> "none"]
    /\ rt_response = [kind |-> "none"]
    /\ rt_variation = "none"

\* no stand-alone call of the evaluator is under way
NoEvaluatorCall ==
    /\ ev_stage = "idle"
    /\ ev_call = "none"
    /\ ev_use_llm_judge = FALSE
    /\ ev_ai_posts = <<>>
    /\ ev_published_posts = <<>>
    /\ ev_comparisons = <<>>

\* no stand-alone call of generate_variations is under way
NoGeneratorCall ==
    /\ gen_pc = "idle"
    /\ gen_cycle = 0
    /\ gen_models = {}
    /\ gen_tasks = <<>>
    /\ gen_futures = <<>>
    /\ gen_collected = {}
    /\ gen_variations = <<>>
    /\ gen_stats = [total_generated |-> 0]

(***************************************************************************)
(* Inputs                                                                  *)
(***************************************************************************)
\* hook and conclusion similarity of a candidate: 0.40, 0.50, ...
MaxHookStep == 4

LowestHook == 40

HookGrid == {LowestHook + 10 * k : k \in 0..MaxHookStep}

\* Result dicts of the four sub-analyses for a candidate whose paragraph
\* count, word count and paragraph length match the reference (1.0 each),
\* whose hook and conclusion similarity are h, with style 1.0, content depth
\* 0.92 and data usage 1.0.  structural overall = (3 * 1.0 + 2 h) / 5.
SubScores(h) ==
    [structural |-> [overall |-> (300 + 2 * h) \div 5, hook_quality |-> h,
                     conclusion_quality |-> h],
     style |-> [overall |-> 100, tone_match |-> 100],
     content |-> [overall |-> 92],
     data |-> [overall |-> 100]]

SubScoreInputs == {SubScores(h) : h \in HookGrid}

\* the lowest grid point and the one below the highest
PairInputs == {SubScores(LowestHook), SubScores(LowestHook + 10 * (MaxHookStep - 1))}

\* The sub-analysis results of a batch of k posts.  A single post ranges over
\* the whole grid; in a larger batch the first post is at the lowest grid
\* point and the others range over PairInputs.
SubScoreBatches(k) ==
    IF k = 0 THEN {<<>>}
    ELSE IF k = 1 THEN [1..1 -> SubScoreInputs]
    ELSE {b \in [1..k -> PairInputs] : b[1] = SubScores(LowestHook)}

\* StyleAnalysis values: the fields PromptGenerator reads
StyleInputs ==
    { [avg_paragraph_length |-> 45, data_points_per_post |-> 3,
       topic_distribution |-> <<>>] }

\* where a round can fail with an exception (an I/O error of one of the three
\* save calls, or an exception of comprehensive_comparison)
Faults == {"none", "save_variations", "comparison", "save_feedback", "save_iteration"}

\* generate_blog_post: a post, no post (None / empty content), or an exception
\* (replaced by simulated content)
GenerationOutcomes == {"content", "no_content", "error"}

\* how many rounds of a run may fail
MaxFailedRounds == 1

NoWeighted == [weight |-> [a \in AreaSet |-> 0], order |-> <<>>]

NoRules == [raised |-> FALSE, rules |-> <<>>]

NoResults == [kind |-> "none"]

NoFeedback == [raised |-> FALSE, history |-> <<>>, summary |-> NoSummary]

(***************************************************************************)
(* IterativeImprover.__init__ and the call of run_complete_cycle           *)
(***************************************************************************)
Init ==
    /\ pc = "analyze"
    /\ max_iterations \in 1..MaxRounds
    /\ num_iterations \in {1, MaxRounds}
    /\ blog_generator \in BOOLEAN
    /\ style_analysis = [avg_paragraph_length |-> 0, data_points_per_post |-> 0,
                         topic_distribution |-> <<>>]
    /\ iteration = 0
    /\ iteration_results = <<>>
    /\ best_overall_score = 0
    /\ best_prompt = {}
    /\ best_candidate_prompts = {}
    /\ stagnation_count = 0
    /\ exit_branch = "none"
    /\ round_error = "none"
    /\ performance_history = <<>>
    /\ prompt_variations = <<>>
    /\ feedback_summary = NoSummary
    /\ final_results = NoResults
    /\ fm_stage = "idle"
    /\ fm_batch = <<>>
    /\ fm_weighted = NoWeighted
    /\ fm_rules = NoRules
    /\ fm_confidence = NoConfidence
    /\ NoEvaluatorCall
    /\ NoGeneratorCall
    /\ NoTrackerCall
    /\ NoClientCall

(***************************************************************************)
(* run_complete_cycle, phase 1: post_analyzer.analyze_posts                *)
(* A failure here propagates out of run_complete_cycle.                    *)
(***************************************************************************)
AnalyzePosts ==
    /\ pc = "analyze"
    /\ \/ /\ \E s \in StyleInputs : style_analysis' = s
          /\ pc' = "loop"
       \/ /\ pc' = "raised"
          /\ UNCHANGED style_analysis
    /\ UNCHANGED << max_iterations, num_iterations, blog_generator, iteration,
                    iteration_results, best_overall_score, best_prompt,
                    best_candidate_prompts,
                    stagnation_count, exit_branch, round_error, performance_history,
                    prompt_variations, feedback_summary, final_results >>
    /\ UNCHANGED << fm_vars, ev_vars, gen_vars, bt_vars, rt_vars >>

(***************************************************************************)
(* IterativeImprover._generate_ai_posts_from_prompts and                   *)
(* _generate_simulated_posts                                               *)
(***************************************************************************)
\* the variations a post is generated for: the top 3 by expected improvement
\* when a blog generator exists, else the first 3 in creation order
GenerationOrder(variations, has_generator) ==
    IF has_generator
    THEN Prefix(SortDesc(variations,
                    [v \in Range(variations) |-> v.expected_score_improvement]),
                TopVariations)
    ELSE Prefix(variations, TopVariations)

\* ai_posts: the prompt name of every post appended, in order.  With a blog
\* generator a variation without content is skipped, an exception is replaced
\* by simulated content; without one every variation gets a simulated post.
RECURSIVE AiPosts(_, _, _)
AiPosts(order, outcomes, has_generator) ==
    IF order = <<>> THEN <<>>
    ELSE (IF has_generator /\ outcomes[1] = "no_content" THEN <<>>
          ELSE << Head(order).name >>)
         \o AiPosts(Tail(order), Tail(outcomes), has_generator)

(***************************************************************************)
(* IterativeImprover._compare_with_published_posts: one ComparisonScore    *)
(* per post, in post order (no exception is caught here)                   *)
(***************************************************************************)
compare_with_published_posts(subs) ==
    [i \in DOMAIN subs |-> comprehensive_comparison(subs[i])]

(***************************************************************************)
(* IterativeImprover._check_convergence, called after the record of the    *)
(* round was appended to results                                           *)
(***************************************************************************)
\* variant: the size of the change, not the improvement, is compared with the
\* threshold, so a drop of 0.02 or more resets the count
check_convergence_abs_delta(results, stagnation, iter, max_iter) ==
    LET current_best == Last(results).best_score_this_iteration
        improvement ==
            current_best - results[Len(results) - 1].best_score_this_iteration
        new_stagnation ==
            IF Len(results) > 1
            THEN (IF improvement < convergence_threshold /\ -improvement < convergence_threshold
                  THEN stagnation + 1 ELSE 0)
            ELSE stagnation
    IN  IF Len(results) > 1 /\ new_stagnation >= max_stagnation
        THEN [should_continue |-> FALSE, stagnation_count |-> new_stagnation,
              branch |-> "stagnation"]
        ELSE IF current_best > ExcellentScore
        THEN [should_continue |-> FALSE, stagnation_count |-> new_stagnation,
              branch |-> "excellent"]
        ELSE [should_continue |-> iter < max_iter, stagnation_count |-> new_stagnation,
              branch |-> IF iter < max_iter THEN "continue" ELSE "max_iterations"]

\* variant: the stagnation stop comes one low-improvement round late
check_convergence_late(results, stagnation, iter, max_iter) ==
    LET current_best == Last(results).best_score_this_iteration
        improvement ==
            current_best - results[Len(results) - 1].best_score_this_iteration
        new_stagnation ==
            IF Len(results) > 1
            THEN (IF improvement < convergence_threshold THEN stagnation + 1 ELSE 0)
            ELSE stagnation
    IN  IF Len(results) > 1 /\ new_stagnation > max_stagnation
        THEN [should_continue |-> FALSE, stagnation_count |-> new_stagnation,
              branch |-> "stagnation"]
        ELSE IF current_best > ExcellentScore
        THEN [should_continue |-> FALSE, stagnation_count |-> new_stagnation,
              branch |-> "excellent"]
        ELSE [should_continue |-> iter < max_iter, stagnation_count |-> new_stagnation,
              branch |-> IF iter < max_iter THEN "continue" ELSE "max_iterations"]

\* variant: a best score of exactly 0.95 already counts as excellent
check_convergence_at_excellent(results, stagnation, iter, max_iter) ==
    LET current_best == Last(results).best_score_this_iteration
        improvement ==
            current_best - results[Len(results) - 1].best_score_this_iteration
        new_stagnation ==
            IF Len(results) > 1
            THEN (IF improvement < convergence_threshold THEN stagnation + 1 ELSE 0)
            ELSE stagnation
    IN  IF Len(results) > 1 /\ new_stagnation >= max_stagnation
        THEN [should_continue |-> FALSE, stagnation_count |-> new_stagnation,
              branch |-> "stagnation"]
        ELSE IF current_best >= ExcellentScore
        THEN [should_continue |-> FALSE, stagnation_count |-> new_stagnation,
              branch |-> "excellent"]
        ELSE [should_continue |-> iter < max_iter, stagnation_count |-> new_stagnation,
              branch |-> IF iter < max_iter THEN "continue" ELSE "max_iterations"]

check_convergence(results, stagnation, iter, max_iter) ==
    LET current_best == Last(results).best_score_this_iteration
        improvement ==
            current_best - results[Len(results) - 1].best_score_this_iteration
        new_stagnation ==
            IF Len(results) > 1
            THEN (IF improvement < convergence_threshold THEN stagnation + 1 ELSE 0)
            ELSE stagnation
    IN  IF Len(results) > 1 /\ new_stagnation >= max_stagnation
        THEN [should_continue |-> FALSE, stagnation_count |-> new_stagnation,
              branch |-> "stagnation"]
        ELSE IF current_best > ExcellentScore
        THEN [should_continue |-> FALSE, stagnation_count |-> new_stagnation,
              branch |-> "excellent"]
        ELSE [should_continue |-> iter < max_iter, stagnation_count |-> new_stagnation,
              branch |-> IF iter < max_iter THEN "continue" ELSE "max_iterations"]

(***************************************************************************)
(* IterativeImprover._run_single_iteration, step 5: the best-so-far update *)
(***************************************************************************)
BestScoreThisIteration(comparison_results) ==
    IF comparison_results = <<>> THEN 0
    ELSE MaxSeq([i \in DOMAIN comparison_results |->
                    comparison_results[i].overall_similarity])

\* variant: a positive score that ties the best replaces it
UpdatesBest_on_tie(best_score, best_overall) ==
    best_score > 0 /\ best_score >= best_overall

UpdatesBest(best_score, best_overall) == best_score > best_overall

NextBestPrompt(comparison_results, variations, best_overall, old_prompt) ==
    IF UpdatesBest(BestScoreThisIteration(comparison_results), best_overall)
    THEN variations[ArgMaxFirst([i \in DOMAIN comparison_results |->
                        comparison_results[i].overall_similarity])].prompt_text
    ELSE old_prompt

\* ai_posts[i] is the prompt name of post i: the prompt texts of the
\* variations whose post has the highest score of the round, when the round
\* replaces the best so far
BestCandidatePrompts(comparison_results, ai_posts, variations, best_overall, old_prompts) ==
    IF UpdatesBest(BestScoreThisIteration(comparison_results), best_overall)
    THEN {v.prompt_text : v \in
            {w \in Range(variations) :
                \E i \in DOMAIN comparison_results :
                    /\ ai_posts[i] = w.name
                    /\ comparison_results[i].overall_similarity =
                           BestScoreThisIteration(comparison_results)}}
    ELSE old_prompts

\* variant: the latest round's best is always taken over
NextBestOverall_latest(comparison_results, best_overall) ==
    BestScoreThisIteration(comparison_results)

NextBestOverall(comparison_results, best_overall) ==
    IF UpdatesBest(BestScoreThisIteration(comparison_results), best_overall)
    THEN BestScoreThisIteration(comparison_results)
    ELSE best_overall

(***************************************************************************)
(* One pass of the for-loop of run_complete_cycle: _run_single_iteration,  *)
(* the append to iteration_results, _check_convergence, and the except     *)
(* clause that skips a failed round.                                       *)
(*   progress 1: failed after the prompt variations were generated         *)
(*   progress 2: failed after performance_history was appended             *)
(*   progress 3: failed after the best-so-far update                       *)
(*   progress 4: the round was recorded                                    *)
(***************************************************************************)
\* previous_result = self.iteration_results[-1] raises IndexError in a later
\* round when no round has been recorded so far
PreviousResultMissing(iter, results) == iter # 1 /\ results = <<>>

RoundProgress(fault, feedback) ==
    IF fault \in {"save_variations", "comparison"} \/ feedback.raised THEN 1
    ELSE IF fault = "save_feedback" THEN 2
    ELSE IF fault = "save_iteration" THEN 3
    ELSE 4

\* the exception _run_single_iteration ends with
RoundError(fault, feedback) ==
    IF fault \in {"save_variations", "comparison"} THEN fault
    ELSE IF feedback.raised THEN "ZeroDivisionError"
    ELSE fault

Round(iter, variations, ai_posts, comparison_results, feedback, fault) ==
    LET progress == RoundProgress(fault, feedback)
        best_score == BestScoreThisIteration(comparison_results)
        new_best == NextBestOverall(comparison_results, best_overall_score)
        record == [iteration |-> iter,
                   best_score_this_iteration |-> best_score,
                   best_overall_score |-> new_best]
        results == Append(iteration_results, record)
        check == check_convergence(results, stagnation_count, iter, max_iterations)
    IN  /\ iteration' = iter
        /\ prompt_variations' = variations
        /\ performance_history' =
              IF progress >= 2 THEN feedback.history ELSE performance_history
        /\ feedback_summary' =
              IF progress >= 3 THEN feedback.summary ELSE feedback_summary
        /\ best_overall_score' = IF progress >= 3 THEN new_best ELSE best_overall_score
        /\ best_prompt' =
              IF progress >= 3
              THEN NextBestPrompt(comparison_results, variations,
                                  best_overall_score, best_prompt)
              ELSE best_prompt
        /\ best_candidate_prompts' =
              IF progress >= 3
              THEN BestCandidatePrompts(comparison_results, ai_posts, variations,
                                        best_overall_score, best_candidate_prompts)
              ELSE best_candidate_prompts
        /\ iteration_results' = IF progress = 4 THEN results ELSE iteration_results
        /\ stagnation_count' =
              IF progress = 4 THEN check.stagnation_count ELSE stagnation_count
        /\ exit_branch' = IF progress = 4 THEN check.branch ELSE exit_branch
        /\ round_error' = RoundError(fault, feedback)
        /\ pc' = IF (progress = 4 /\ ~check.should_continue) \/ iter = num_iterations
                 THEN "summary" ELSE "loop"

\* the except clause after the IndexError: nothing but the loop variable moves
SkipRound(iter) ==
    /\ iteration' = iter
    /\ round_error' = "IndexError"
    /\ pc' = IF iter = num_iterations THEN "summary" ELSE "loop"
    /\ UNCHANGED << iteration_results, best_overall_score, best_prompt,
                    best_candidate_prompts,
                    stagnation_count, exit_branch, performance_history,
                    prompt_variations, feedback_summary >>

\* the faults a round may meet: rounds entered so far minus rounds recorded is
\* the number of failed rounds
AllowedFaults(iter, results) ==
    IF (iter - 1) - Len(results) < MaxFailedRounds THEN Faults ELSE {"none"}

\* the post lists _generate_ai_posts_from_prompts can return
PostLists(order, has_generator) ==
    {AiPosts(order, outcomes, has_generator) :
        outcomes \in [1..Len(order) -> IF has_generator THEN GenerationOutcomes
                                       ELSE {"content"}]}

AttemptRound(iter) ==
    LET variations == generate_iterative_improvements(style_analysis, iter,
                                                      iteration_results)
        order == GenerationOrder(variations, blog_generator)
    IN  \E fault \in AllowedFaults(iter, iteration_results) :
            IF fault = "save_variations"
            THEN Round(iter, variations, <<>>, <<>>, NoFeedback, fault)
            ELSE \E posts \in PostLists(order, blog_generator) :
                 \E subs \in SubScoreBatches(Len(posts)) :
                    /\ fault = "comparison" => posts # <<>>
                    /\ IF fault = "comparison"
                       THEN Round(iter, variations, <<>>, <<>>, NoFeedback, fault)
                       ELSE \E comparison_results \in
                                    {compare_with_published_posts(subs)} :
                            \E feedback \in
                                    {generate_feedback_summary(comparison_results,
                                        variations, performance_history, iter)} :
                                Round(iter, variations, posts, comparison_results,
                                      feedback, fault)

RunIteration ==
    /\ pc = "loop"
    /\ iteration < num_iterations
    /\ IF PreviousResultMissing(iteration + 1, iteration_results)
       THEN SkipRound(iteration + 1)
       ELSE AttemptRound(iteration + 1)
    /\ UNCHANGED << max_iterations, num_iterations, blog_generator, style_analysis,
                    final_results >>
    /\ UNCHANGED << fm_vars, ev_vars, gen_vars, bt_vars, rt_vars >>

(***************************************************************************)
(* IterativeImprover._generate_final_summary                               *)
(***************************************************************************)
\* the first record with the highest best_score_this_iteration
BestIteration(results) ==
    results[ArgMaxFirst([i \in DOMAIN results |->
                            results[i].best_score_this_iteration])]

generate_final_summary(results, stagnation, prompt) ==
    IF results = <<>>
    THEN [kind |-> "error"]
    ELSE [kind |-> "summary",
          total_iterations |-> Len(results),
          first_score |-> results[1].best_score_this_iteration,
          final_score |-> Last(results).best_score_this_iteration,
          total_improvement |-> Last(results).best_score_this_iteration
                                    - results[1].best_score_this_iteration,
          best_iteration |-> BestIteration(results).iteration,
          best_score |-> BestIteration(results).best_score_this_iteration,
          convergence_achieved |-> stagnation >= max_stagnation,
          final_prompt |-> prompt,
          performance_trajectory |->
              [i \in DOMAIN results |-> results[i].best_score_this_iteration]]

(***************************************************************************)
(* run_complete_cycle after the loop: _generate_final_summary,             *)
(* _save_complete_results (its markdown report reads summary['run_id'],    *)
(* which the "No iterations completed" dict does not have: KeyError), the  *)
(* closing report and the return.                                          *)
(***************************************************************************)
FinishCycle ==
    /\ pc = "summary"
    /\ final_results' = generate_final_summary(iteration_results, stagnation_count,
                                               best_prompt)
    /\ pc' = IF final_results'.kind = "error" THEN "raised" ELSE "returned"
    /\ UNCHANGED << max_iterations, num_iterations, blog_generator, style_analysis,
                    iteration, iteration_results, best_overall_score, best_prompt,
                    best_candidate_prompts,
                    stagnation_count, exit_branch, round_error, performance_history,
                    prompt_variations, feedback_summary >>
    /\ UNCHANGED << fm_vars, ev_vars, gen_vars, bt_vars, rt_vars >>

Next ==
    \/ AnalyzePosts
    \/ RunIteration
    \/ FinishCycle

Spec == Init /\ [][Next]_vars

(***************************************************************************)
(* The FeedbackManager on its own: the steps of generate_feedback_summary  *)
(* on a fresh manager, fed with batches of ComparisonScore records.        *)
(***************************************************************************)
\* how many batches one manager is fed
MaxHistory == 3

ScoreLevels == {50, 90, 100}

\* sub-analysis results with style similarity and tone match at one level
\* and every other sub-score at another
UniformSubScores(style, rest) ==
    [structural |-> [overall |-> rest, hook_quality |-> rest,
                     conclusion_quality |-> rest],
     style |-> [overall |-> style, tone_match |-> style],
     content |-> [overall |-> rest],
     data |-> [overall |-> rest]]

\* the batches: no post, one post, or the two posts furthest apart
RuleBatches ==
    {<<>>} \cup {<< comprehensive_comparison(UniformSubScores(style, rest)) >> :
                    style \in ScoreLevels, rest \in ScoreLevels}
           \cup {<< comprehensive_comparison(UniformSubScores(50, 50)),
                    comprehensive_comparison(UniformSubScores(100, 100)) >>}

InitRules ==
    /\ pc = "feedback"
    /\ max_iterations = MaxRounds
    /\ num_iterations = MaxRounds
    /\ blog_generator = FALSE
    /\ style_analysis = [avg_paragraph_length |-> 0, data_points_per_post |-> 0,
                         topic_distribution |-> <<>>]
    /\ iteration = 0
    /\ iteration_results = <<>>
    /\ best_overall_score = 0
    /\ best_prompt = {}
    /\ best_candidate_prompts = {}
    /\ stagnation_count = 0
    /\ exit_branch = "none"
    /\ round_error = "none"
    /\ performance_history = <<>>
    /\ prompt_variations = <<>>
    /\ feedback_summary = NoSummary
    /\ final_results = NoResults
    /\ fm_stage = "idle"
    /\ fm_batch = <<>>
    /\ fm_weighted = NoWeighted
    /\ fm_rules = NoRules
    /\ fm_confidence = NoConfidence
    /\ NoEvaluatorCall
    /\ NoGeneratorCall
    /\ NoTrackerCall
    /\ NoClientCall

\* identify_improvement_areas and weight_feedback_importance on a new batch
WeightFeedback ==
    /\ pc = "feedback"
    /\ fm_stage = "idle"
    /\ Len(performance_history) < MaxHistory
    /\ \E batch \in RuleBatches :
          /\ fm_batch' = batch
          /\ fm_weighted' = weight_feedback_importance(
                                identify_improvement_areas(batch), performance_history)
    /\ fm_stage' = "weighted"
    /\ fm_rules' = NoRules
    /\ fm_confidence' = NoConfidence
    /\ UNCHANGED << orchestrator_vars, ev_vars, gen_vars, bt_vars, rt_vars >>
    /\ UNCHANGED performance_history

\* generate_optimization_rules; its ZeroDivisionError ends the summary
GenerateRules ==
    /\ pc = "feedback"
    /\ fm_stage = "weighted"
    /\ fm_rules' = generate_optimization_rules(fm_weighted)
    /\ fm_stage' = IF fm_rules'.raised THEN "idle" ELSE "rules"
    /\ UNCHANGED << fm_batch, fm_weighted, fm_confidence >>
    /\ UNCHANGED << orchestrator_vars, ev_vars, gen_vars, bt_vars, rt_vars >>
    /\ UNCHANGED performance_history

\* track_improvement_metrics
TrackMetrics ==
    /\ pc = "feedback"
    /\ fm_stage = "rules"
    /\ performance_history' =
          track_improvement_metrics(fm_batch, performance_history,
                                    Len(performance_history) + 1)
    /\ fm_confidence' =
          calculate_confidence_score(fm_batch, Len(performance_history) + 1,
                                     performance_history')
    /\ fm_stage' = "idle"
    /\ UNCHANGED << fm_batch, fm_weighted, fm_rules >>
    /\ UNCHANGED << orchestrator_vars, ev_vars, gen_vars, bt_vars, rt_vars >>

NextRules ==
    \/ WeightFeedback
    \/ GenerateRules
    \/ TrackMetrics

SpecRules == InitRules /\ [][NextRules]_vars

(***************************************************************************)
(* The ComparativeEvaluator on its own: one call of comprehensive_         *)
(* comparison, of batch_comparison, or of the improver's                   *)
(* _compare_with_published_posts, on texts over the vocabulary.            *)
(***************************************************************************)
\* words of a paragraph
MaxWords == 2

\* paragraphs of a text
MaxParagraphs == 2

\* candidates of a batch
MaxCandidates == 3

\* published posts of a batch
MaxReferences == 5

Paragraphs == UNION {[1..k -> Vocabulary] : k \in 1..MaxWords}

\* The texts: the empty text, every text of one paragraph, and the longer
\* texts whose paragraphs are single words.
Texts ==
    {<<>>} \cup [1..1 -> Paragraphs]
    \cup UNION {[1..k -> [1..1 -> Vocabulary]] : k \in 2..MaxParagraphs}

VocabularyList == <<"Data", "will", "use", "trend", "5%">>

\* the k-th published post of the corpus: a title and a one-word content
PublishedPost(k) ==
    [title |-> k,
     content |-> << << VocabularyList[((k - 1) % Len(VocabularyList)) + 1] >> >>]

\* the i-th (ai_content, prompt_name) pair of a batch
AiPost(i) ==
    [content |-> << << VocabularyList[(i % Len(VocabularyList)) + 1] >> >>,
     prompt_name |-> i]

\* the calls: comprehensive_comparison on every pair of texts, and the two
\* batch methods on every number of candidates and of published posts
EvaluatorCalls ==
    {[call |-> "comprehensive_comparison",
      ai_posts |-> << [content |-> t, prompt_name |-> 1] >>,
      published_posts |-> << [title |-> 1, content |-> r] >>] :
        t \in Texts, r \in Texts}
    \cup {[call |-> c,
           ai_posts |-> [i \in 1..k |-> AiPost(i)],
           published_posts |-> [j \in 1..n |-> PublishedPost(j)]] :
             c \in {"batch_comparison", "compare_with_published_posts"},
             k \in 0..MaxCandidates, n \in 0..MaxReferences}

NoResponse == [kind |-> "not_called", score |-> 0]

\* what the two external services do during one comprehensive_comparison
ServiceOutcomes(use_llm_judge) ==
    {[battle_result |-> b, response |-> r] :
        b \in BattleOutcomes,
        r \in IF use_llm_judge THEN JudgeResponses ELSE {NoResponse}}

\* the outcomes of the comparisons of a batch: both services fail, or both
\* answer with their highest score
BatchServiceOutcomes(use_llm_judge) ==
    {[battle_result |-> [raised |-> TRUE, score |-> QZero],
      response |-> IF use_llm_judge THEN [kind |-> "exception", score |-> 0]
                   ELSE NoResponse],
     [battle_result |-> [raised |-> FALSE, score |-> QOne],
      response |-> IF use_llm_judge THEN [kind |-> "score", score |-> 100]
                   ELSE NoResponse]}

\* one call of comprehensive_comparison(ai_content, published_post, topic,
\* prompt_name): its arguments, what the judge model did, the result dicts
\* of the sub-analyses and the ComparisonScore
comparison_of(ai_post, published_post, use_llm_judge, outcome) ==
    LET sub == text_analyses(ai_post.content, published_post.content,
                             outcome.battle_result)
    IN  [prompt_name |-> ai_post.prompt_name,
         published_post |-> published_post.title,
         judge_response |-> outcome.response.kind,
         analyses |-> sub,
         score |-> comprehensive_comparison_exact(sub, use_llm_judge, use_llm_judge,
                                                  outcome.response)]

\* the loop of batch_comparison with every candidate paired with the first
\* published post
batch_comparison_first_only(ai_posts, published_posts, use_llm_judge, outcomes) ==
    IF Len(ai_posts) > 0 /\ Len(published_posts) = 0
    THEN [raised |-> TRUE, comparisons |-> <<>>]
    ELSE [raised |-> FALSE,
          comparisons |->
            [i \in 1..Len(ai_posts) |->
                comparison_of(ai_posts[i], published_posts[1], use_llm_judge,
                              outcomes[i])]]

\* ComparativeEvaluator.batch_comparison up to _save_batch_results; the
\* modulo raises ZeroDivisionError when there is no published post
batch_comparison(ai_posts, published_posts, use_llm_judge, outcomes) ==
    IF Len(ai_posts) > 0 /\ Len(published_posts) = 0
    THEN [raised |-> TRUE, comparisons |-> <<>>]
    ELSE [raised |-> FALSE,
          comparisons |->
            [i \in 1..Len(ai_posts) |->
                LET published_post ==
                        published_posts[((i - 1) % Len(published_posts)) + 1]
                IN  comparison_of(ai_posts[i], published_post, use_llm_judge,
                                  outcomes[i])]]

\* IterativeImprover._compare_with_published_posts with the texts and the
\* published post of every comparison
compare_with_published_posts_paired(ai_posts, published_posts, use_llm_judge, outcomes) ==
    IF Len(ai_posts) > 0 /\ Len(published_posts) = 0
    THEN [raised |-> TRUE, comparisons |-> <<>>]
    ELSE [raised |-> FALSE,
          comparisons |->
            [i \in 1..Len(ai_posts) |->
                LET published_post ==
                        published_posts[((i - 1) % Len(published_posts)) + 1]
                IN  comparison_of(ai_posts[i], published_post, use_llm_judge,
                                  outcomes[i])]]

\* the orchestrator and the feedback manager, constructed and not run
OrchestratorConstructed(position) ==
    /\ pc = position
    /\ max_iterations = MaxRounds
    /\ num_iterations = MaxRounds
    /\ blog_generator = FALSE
    /\ style_analysis = [avg_paragraph_length |-> 0, data_points_per_post |-> 0,
                         topic_distribution |-> <<>>]
    /\ iteration = 0
    /\ iteration_results = <<>>
    /\ best_overall_score = 0
    /\ best_prompt = {}
    /\ best_candidate_prompts = {}
    /\ stagnation_count = 0
    /\ exit_branch = "none"
    /\ round_error = "none"
    /\ performance_history = <<>>
    /\ prompt_variations = <<>>
    /\ feedback_summary = NoSummary
    /\ final_results = NoResults
    /\ fm_stage = "idle"
    /\ fm_batch = <<>>
    /\ fm_weighted = NoWeighted
    /\ fm_rules = NoRules
    /\ fm_confidence = NoConfidence

\* ComparativeEvaluator.__init__ and _init_gemini (the judge stays enabled
\* only if it was asked for and an API key was found), then the call
InitScorer ==
    /\ OrchestratorConstructed("scoring")
    /\ NoGeneratorCall
    /\ NoTrackerCall
    /\ NoClientCall
    /\ ev_stage = "called"
    /\ \E use_llm_judge \in BOOLEAN, api_key \in BOOLEAN :
          ev_use_llm_judge = (use_llm_judge /\ api_key)
    /\ \E c \in EvaluatorCalls :
          /\ ev_call = c.call
          /\ ev_ai_posts = c.ai_posts
          /\ ev_published_posts = c.published_posts
    /\ ev_comparisons = <<>>

\* comprehensive_comparison(ai_content, published_post, topic, prompt_name)
ComprehensiveComparison ==
    /\ ev_stage = "called"
    /\ ev_call = "comprehensive_comparison"
    /\ \E outcome \in ServiceOutcomes(ev_use_llm_judge) :
          ev_comparisons' = << comparison_of(ev_ai_posts[1], ev_published_posts[1],
                                             ev_use_llm_judge, outcome) >>
    /\ ev_stage' = "returned"
    /\ UNCHANGED << ev_call, ev_use_llm_judge, ev_ai_posts, ev_published_posts >>
    /\ UNCHANGED << orchestrator_vars, performance_history, fm_vars, gen_vars, bt_vars, rt_vars >>

\* batch_comparison(ai_posts, published_posts); _save_batch_results at its
\* end can fail with an I/O error
BatchComparison ==
    /\ ev_stage = "called"
    /\ ev_call = "batch_comparison"
    /\ \E outcomes \in [1..Len(ev_ai_posts) -> BatchServiceOutcomes(ev_use_llm_judge)],
          saved \in BOOLEAN :
          \E result \in {batch_comparison(ev_ai_posts, ev_published_posts,
                                          ev_use_llm_judge, outcomes)} :
             IF result.raised \/ ~saved
             THEN ev_stage' = "raised" /\ ev_comparisons' = <<>>
             ELSE ev_stage' = "returned" /\ ev_comparisons' = result.comparisons
    /\ UNCHANGED << ev_call, ev_use_llm_judge, ev_ai_posts, ev_published_posts >>
    /\ UNCHANGED << orchestrator_vars, performance_history, fm_vars, gen_vars, bt_vars, rt_vars >>

\* _compare_with_published_posts(ai_posts, published_posts)
CompareWithPublishedPosts ==
    /\ ev_stage = "called"
    /\ ev_call = "compare_with_published_posts"
    /\ \E outcomes \in [1..Len(ev_ai_posts) -> BatchServiceOutcomes(ev_use_llm_judge)] :
          \E result \in {compare_with_published_posts_paired(
                            ev_ai_posts, ev_published_posts, ev_use_llm_judge,
                            outcomes)} :
             IF result.raised
             THEN ev_stage' = "raised" /\ ev_comparisons' = <<>>
             ELSE ev_stage' = "returned" /\ ev_comparisons' = result.comparisons
    /\ UNCHANGED << ev_call, ev_use_llm_judge, ev_ai_posts, ev_published_posts >>
    /\ UNCHANGED << orchestrator_vars, performance_history, fm_vars, gen_vars, bt_vars, rt_vars >>

NextScorer ==
    \/ ComprehensiveComparison
    \/ BatchComparison
    \/ CompareWithPublishedPosts

SpecScorer == InitScorer /\ [][NextScorer]_vars

(***************************************************************************)
(* BlogGenerator.generate_variations on its own.  The main thread submits  *)
(* every generation task to the thread pool and collects the futures as    *)
(* they complete; every worker thread runs _generate_single_variation.     *)
(* There are never more tasks than the max_workers of the pool, so every   *)
(* submitted task runs at once.                                            *)
(***************************************************************************)
\* how many of the three model clients were initialised
MaxBackends == 2

\* the cycles generate_variations is called with
MaxCycle == 3

\* the keys of BlogGenerator.models, in the order _initialize_models adds them
ModelOrder == <<"claude", "gpt4", "gemini">>

\* the names of the strategies of a cycle
strategies(cycle) ==
    IF cycle = 1 THEN <<"technical", "business", "data-driven">>
    ELSE IF cycle = 2 THEN <<"refined", "expanded">>
    ELSE <<"polished">>

\* strategies[:2] if cycle == 1 else strategies[:1]
strategies_to_use(cycle) ==
    IF cycle = 1 THEN Prefix(strategies(cycle), 2) ELSE Prefix(strategies(cycle), 1)

\* generation_tasks: for every model with a client, one task per strategy to use
generation_tasks(models, cycle) ==
    LET present == SelectSeq(ModelOrder, LAMBDA model_name : model_name \in models)
        use == strategies_to_use(cycle)
    IN  [k \in 1..(Len(present) * Len(use)) |->
            [model_name |-> present[((k - 1) \div Len(use)) + 1],
             strategy_name |-> use[((k - 1) % Len(use)) + 1]]]

\* What model_client.generate does for one task: it returns a response with
\* content, returns a response with error set, or raises; and whether the
\* call took longer than the timeout given to future.result.
BackendBehaviours ==
    {[response |-> r, exceeded_timeout |-> late] :
        r \in {"content", "error", "raises"}, late \in BOOLEAN}

NoneResult == [kind |-> "None", model |-> "", strategy |-> "", cycle |-> 0]

\* _generate_single_variation: the variation dict, or None for a response
\* with error set and for an exception
generate_single_variation(task, cycle, behaviour) ==
    IF behaviour.response = "raises" THEN NoneResult
    ELSE IF behaviour.response = "error" THEN NoneResult
    ELSE [kind |-> "variation", model |-> task.model_name,
          strategy |-> task.strategy_name, cycle |-> cycle]

\* a future: its state, what the backend did for it, what it holds
RunningFuture ==
    [state |-> "running", response |-> "pending", result |-> NoneResult,
     exceeded_timeout |-> FALSE]

\* future.result(timeout=60): the result of a finished future, TimeoutError for
\* a future that does not finish within the timeout
future_result(future) ==
    IF future.state = "finished" THEN future.result
    ELSE [kind |-> "TimeoutError", model |-> "", strategy |-> "", cycle |-> 0]

\* the body of the as_completed loop that empties the list whenever a future
\* has no variation
collect_or_reset(variations, future) ==
    LET variation == future_result(future)
    IN  IF variation.kind = "variation"
        THEN Append(variations, [model |-> variation.model,
                                 strategy |-> variation.strategy,
                                 cycle |-> variation.cycle])
        ELSE <<>>

\* the body of the as_completed loop: a variation is appended, None and an
\* exception of future.result are reported and skipped
collect(variations, future) ==
    LET variation == future_result(future)
    IN  IF variation.kind = "variation"
        THEN Append(variations, [model |-> variation.model,
                                 strategy |-> variation.strategy,
                                 cycle |-> variation.cycle])
        ELSE variations

\* the body of the as_completed loop, main thread: stats['total_generated']
\* += 1 for every variation appended
count_generated(stats, future) ==
    IF future_result(future).kind = "variation"
    THEN [stats EXCEPT !.total_generated = @ + 1]
    ELSE stats

\* BlogGenerator.__init__: _initialize_models keeps the clients that could be
\* constructed
InitGenerator ==
    /\ OrchestratorConstructed("generating")
    /\ NoEvaluatorCall
    /\ NoTrackerCall
    /\ NoClientCall
    /\ gen_pc = "idle"
    /\ gen_cycle = 0
    /\ gen_models \in {models \in SUBSET Range(ModelOrder) :
                          Cardinality(models) <= MaxBackends}
    /\ gen_tasks = <<>>
    /\ gen_futures = <<>>
    /\ gen_collected = {}
    /\ gen_variations = <<>>
    /\ gen_stats = [total_generated |-> 0]

\* generate_variations(prompt, cycle) up to the end of the submit loop
SubmitTasks ==
    /\ gen_pc = "idle"
    /\ \E cycle \in 1..MaxCycle :
          /\ gen_cycle' = cycle
          /\ gen_tasks' = generation_tasks(gen_models, cycle)
          /\ gen_futures' = [k \in DOMAIN generation_tasks(gen_models, cycle) |->
                                RunningFuture]
    /\ gen_collected' = {}
    /\ gen_variations' = <<>>
    /\ gen_pc' = "collecting"
    /\ UNCHANGED << gen_models, gen_stats >>
    /\ UNCHANGED << orchestrator_vars, performance_history, fm_vars, ev_vars, bt_vars, rt_vars >>

\* a worker thread: _generate_single_variation of one task ends
UnitFinishes ==
    /\ gen_pc = "collecting"
    /\ \E k \in DOMAIN gen_futures, behaviour \in BackendBehaviours :
          /\ gen_futures[k].state = "running"
          /\ gen_futures' =
                [gen_futures EXCEPT
                    ![k] = [state |-> "finished",
                            response |-> behaviour.response,
                            result |-> generate_single_variation(
                                           gen_tasks[k], gen_cycle, behaviour),
                            exceeded_timeout |-> behaviour.exceeded_timeout]]
    /\ UNCHANGED << gen_pc, gen_cycle, gen_models, gen_tasks, gen_collected,
                    gen_variations, gen_stats >>
    /\ UNCHANGED << orchestrator_vars, performance_history, fm_vars, ev_vars, bt_vars, rt_vars >>

\* the main thread: as_completed yields a finished future, and the loop body
\* takes its result
CollectFuture ==
    /\ gen_pc = "collecting"
    /\ \E k \in DOMAIN gen_futures \ gen_collected :
          /\ gen_futures[k].state = "finished"
          /\ gen_variations' = collect(gen_variations, gen_futures[k])
          /\ gen_stats' = count_generated(gen_stats, gen_futures[k])
          /\ gen_collected' = gen_collected \cup {k}
    /\ UNCHANGED << gen_pc, gen_cycle, gen_models, gen_tasks, gen_futures >>
    /\ UNCHANGED << orchestrator_vars, performance_history, fm_vars, ev_vars, bt_vars, rt_vars >>

\* variant: the return does not wait for the units still running
ReturnVariations_without_join ==
    /\ gen_pc = "collecting"
    /\ gen_futures # <<>>
    /\ gen_pc' = "returned"
    /\ UNCHANGED << gen_cycle, gen_models, gen_tasks, gen_futures, gen_collected,
                    gen_variations, gen_stats >>
    /\ UNCHANGED << orchestrator_vars, performance_history, fm_vars, ev_vars, bt_vars, rt_vars >>

\* the main thread: as_completed is exhausted, the pool shuts down and
\* generate_variations returns variations
ReturnVariations ==
    /\ gen_pc = "collecting"
    /\ gen_collected = DOMAIN gen_futures
    /\ gen_pc' = "returned"
    /\ UNCHANGED << gen_cycle, gen_models, gen_tasks, gen_futures, gen_collected,
                    gen_variations, gen_stats >>
    /\ UNCHANGED << orchestrator_vars, performance_history, fm_vars, ev_vars, bt_vars, rt_vars >>

NextGenerator ==
    \/ SubmitTasks
    \/ UnitFinishes
    \/ CollectFuture
    \/ ReturnVariations

SpecGenerator == InitGenerator /\ [][NextGenerator]_vars

(***************************************************************************)
(* BraintrustTracker (braintrust_integration.py) and the programs that     *)
(* use one: the calls test_braintrust.py makes on it, in any order,        *)
(* BlogGenerator.generate_blog_post and IterativeImprover.run_complete_    *)
(* cycle.  An experiment is the number braintrust.init gave it; 0 is None. *)
(***************************************************************************)
\* the number of calls made on a tracker directly
MaxCalls == 4

\* BraintrustTracker.__init__: enabled iff BRAINTRUST_API_KEY is set
BraintrustTracker(api_key) ==
    [enabled |-> api_key, experiment |-> 0, opened |-> 0, finished |-> {}]

\* what braintrust.init and experiment.log can do
TrackerServiceOutcomes == {"ok", "raises"}

\* variant: start_experiment without the test of enabled
start_experiment_unguarded(tracker, init_outcome) ==
    IF init_outcome = "raises"
    THEN [tracker |-> [tracker EXCEPT !.enabled = FALSE], result |-> "error",
          raised |-> FALSE]
    ELSE [tracker |-> [tracker EXCEPT !.experiment = tracker.opened + 1,
                                      !.opened = tracker.opened + 1],
          result |-> "experiment_name", raised |-> FALSE]

\* start_experiment: "disabled" on a disabled tracker; else braintrust.init
\* gives self.experiment, and its exception disables the tracker
start_experiment(tracker, init_outcome) ==
    IF ~tracker.enabled
    THEN [tracker |-> tracker, result |-> "disabled", raised |-> FALSE]
    ELSE IF init_outcome = "raises"
    THEN [tracker |-> [tracker EXCEPT !.enabled = FALSE], result |-> "error",
          raised |-> FALSE]
    ELSE [tracker |-> [tracker EXCEPT !.experiment = tracker.opened + 1,
                                      !.opened = tracker.opened + 1],
          result |-> "experiment_name", raised |-> FALSE]

\* log_generation: returns at once without enabled and an experiment; an
\* exception of the span log is reported, not raised
log_generation(tracker, log_outcome) ==
    [tracker |-> tracker, result |-> "None", raised |-> FALSE]

\* log_evaluation: the same around experiment.log
log_evaluation(tracker, log_outcome) ==
    [tracker |-> tracker, result |-> "None", raised |-> FALSE]

\* finish_experiment: "disabled" without enabled and an experiment; else the
\* summary is logged, "error" is returned for an exception, and the finally
\* clause sets self.experiment to None
finish_experiment(tracker, log_outcome) ==
    IF ~tracker.enabled \/ tracker.experiment = 0
    THEN [tracker |-> tracker, result |-> "disabled", raised |-> FALSE]
    ELSE [tracker |-> [tracker EXCEPT !.experiment = 0,
                                      !.finished = @ \cup {tracker.experiment}],
          result |-> IF log_outcome = "raises" THEN "error" ELSE "completed",
          raised |-> FALSE]

\* the tracker the variables hold
CurrentTracker ==
    [enabled |-> bt_enabled, experiment |-> bt_experiment, opened |-> bt_opened,
     finished |-> bt_finished]

\* the variables take the tracker a call leaves
TrackerBecomes(tracker) ==
    /\ bt_enabled' = tracker.enabled
    /\ bt_experiment' = tracker.experiment
    /\ bt_opened' = tracker.opened
    /\ bt_finished' = tracker.finished

\* a call made on the tracker directly
TrackerCall(name, call) ==
    /\ bt_pc = "test"
    /\ Len(bt_calls) < MaxCalls
    /\ TrackerBecomes(call.tracker)
    /\ bt_result' = IF name \in {"start_experiment", "finish_experiment"}
                    THEN call.result ELSE bt_result
    /\ bt_raised' = (bt_raised \/ call.raised)
    /\ bt_calls' = Append(bt_calls, name)
    /\ UNCHANGED << bt_pc, bt_api_key, bt_tracker >>
    /\ UNCHANGED << orchestrator_vars, performance_history, fm_vars, ev_vars,
                    gen_vars, rt_vars >>

\* BlogGenerator.generate_blog_post as far as the tracker goes: the experiment
\* is started first; an exception of the planning or of the handling of the
\* best post leaves the method; with no variation at all None is returned;
\* else the experiment is finished before best_post is returned
generate_blog_post(tracker, has_tracker, init_outcome, planning, produced, handling, log_outcome) ==
    LET started == IF has_tracker THEN start_experiment(tracker, init_outcome).tracker
                   ELSE tracker
    IN  IF planning = "raises" THEN [tracker |-> started, exit |-> "raised"]
        ELSE IF ~produced THEN [tracker |-> started, exit |-> "returned"]
        ELSE IF handling = "raises" THEN [tracker |-> started, exit |-> "raised"]
        ELSE [tracker |-> IF has_tracker
                          THEN finish_experiment(started, log_outcome).tracker
                          ELSE started,
              exit |-> "returned"]

\* PostAnalyzer.analyze_posts as far as the tracker goes: it starts an
\* experiment of its own on the tracker it was given
analyze_posts_experiment(tracker, init_outcome) ==
    start_experiment(tracker, init_outcome).tracker

\* IterativeImprover.run_complete_cycle as far as the tracker goes: the
\* experiment is started, analyze_posts runs on the same tracker, and the
\* finally clause calls finish_experiment whether or not the body raised
run_complete_cycle(tracker, init_outcome, analyzer_init_outcome, body, log_outcome) ==
    LET started == start_experiment(tracker, init_outcome).tracker
        analyzed == analyze_posts_experiment(started, analyzer_init_outcome)
    IN  [tracker |-> finish_experiment(analyzed, log_outcome).tracker,
         exit |-> IF body = "raises" THEN "raised" ELSE "returned"]

\* BraintrustTracker.__init__ with or without the API key, and the program
\* that is about to use the tracker; a BlogGenerator has no tracker when its
\* configuration disables braintrust
InitTracker ==
    /\ OrchestratorConstructed("tracking")
    /\ NoEvaluatorCall
    /\ NoGeneratorCall
    /\ NoClientCall
    /\ bt_pc \in {"test", "generate_blog_post", "run_complete_cycle"}
    /\ bt_api_key \in BOOLEAN
    /\ bt_tracker \in BOOLEAN
    /\ bt_pc # "generate_blog_post" => bt_tracker = TRUE
    /\ bt_enabled = BraintrustTracker(bt_api_key).enabled
    /\ bt_experiment = BraintrustTracker(bt_api_key).experiment
    /\ bt_opened = BraintrustTracker(bt_api_key).opened
    /\ bt_finished = BraintrustTracker(bt_api_key).finished
    /\ bt_result = "none"
    /\ bt_raised = FALSE
    /\ bt_calls = <<>>

StartExperiment ==
    \E init_outcome \in TrackerServiceOutcomes :
        TrackerCall("start_experiment", start_experiment(CurrentTracker, init_outcome))

LogGeneration ==
    \E log_outcome \in TrackerServiceOutcomes :
        TrackerCall("log_generation", log_generation(CurrentTracker, log_outcome))

LogEvaluation ==
    \E log_outcome \in TrackerServiceOutcomes :
        TrackerCall("log_evaluation", log_evaluation(CurrentTracker, log_outcome))

FinishExperiment ==
    \E log_outcome \in TrackerServiceOutcomes :
        TrackerCall("finish_experiment", finish_experiment(CurrentTracker, log_outcome))

GenerateBlogPost ==
    /\ bt_pc = "generate_blog_post"
    /\ \E init_outcome \in TrackerServiceOutcomes, planning \in {"ok", "raises"},
          produced \in BOOLEAN, handling \in {"ok", "raises"},
          log_outcome \in TrackerServiceOutcomes :
          \E call \in {generate_blog_post(CurrentTracker, bt_tracker, init_outcome,
                                          planning, produced, handling, log_outcome)} :
              /\ TrackerBecomes(call.tracker)
              /\ bt_pc' = call.exit
    /\ UNCHANGED << bt_api_key, bt_tracker, bt_result, bt_raised, bt_calls >>
    /\ UNCHANGED << orchestrator_vars, performance_history, fm_vars, ev_vars,
                    gen_vars, rt_vars >>

RunCompleteCycle ==
    /\ bt_pc = "run_complete_cycle"
    /\ \E init_outcome \in TrackerServiceOutcomes,
          analyzer_init_outcome \in TrackerServiceOutcomes,
          body \in {"ok", "raises"}, log_outcome \in TrackerServiceOutcomes :
          \E call \in {run_complete_cycle(CurrentTracker, init_outcome,
                                          analyzer_init_outcome, body, log_outcome)} :
              /\ TrackerBecomes(call.tracker)
              /\ bt_pc' = call.exit
    /\ UNCHANGED << bt_api_key, bt_tracker, bt_result, bt_raised, bt_calls >>
    /\ UNCHANGED << orchestrator_vars, performance_history, fm_vars, ev_vars,
                    gen_vars, rt_vars >>

NextTracker ==
    \/ StartExperiment
    \/ LogGeneration
    \/ LogEvaluation
    \/ FinishExperiment
    \/ GenerateBlogPost
    \/ RunCompleteCycle

SpecTracker == InitTracker /\ [][NextTracker]_vars

(***************************************************************************)
(* ModelClient.retry_with_backoff (models/base.py), the generate method of *)
(* ClaudeClient and OpenAIClient built on it, and what BlogGenerator.      *)
(* _generate_single_variation makes of the ModelResponse.  _call_api       *)
(* returns a response or raises an Exception; an exception is the record   *)
(* of its message, and the message of an exception can be empty.           *)
(***************************************************************************)
\* the largest retry_attempts, and the length of the list of what the
\* successive calls of _call_api do
MaxAttempts == 3

\* the values of retry_delay
RetryDelays == {1, 2}

\* str(e) of the exceptions _call_api raises
ExceptionMessages == {"", "overloaded"}

\* what one call of func does
CallOutcomes ==
    {[kind |-> "returns", message |-> "None"]}
        \cup {[kind |-> "raises", message |-> m] : m \in ExceptionMessages}

\* last_exception = None
NoException == [kind |-> "None", message |-> "None"]

\* `raise last_exception` with last_exception = None
RaiseNone == [kind |-> "raises", message |-> "exceptions must derive from BaseException"]

RECURSIVE Power2(_)
Power2(k) == IF k = 0 THEN 1 ELSE 2 * Power2(k - 1)

\* variant of the loop of retry_with_backoff that sleeps after every failed
\* attempt, the last one too
RECURSIVE retry_loop_sleeps_always(_, _, _, _, _, _)
retry_loop_sleeps_always(attempt, retry_attempts, retry_delay, outcomes, sleeps, last_exception) ==
    IF attempt >= retry_attempts
    THEN [kind |-> "raised", calls |-> attempt, sleeps |-> sleeps,
          exception |-> IF last_exception = NoException THEN RaiseNone
                        ELSE last_exception]
    ELSE IF outcomes[attempt + 1].kind = "returns"
    THEN [kind |-> "returned", calls |-> attempt + 1, sleeps |-> sleeps,
          exception |-> NoException]
    ELSE retry_loop_sleeps_always(attempt + 1, retry_attempts, retry_delay, outcomes,
                    Append(sleeps, retry_delay * Power2(attempt)),
                    outcomes[attempt + 1])

\* the for-loop of retry_with_backoff from `attempt` on (0-based): func is
\* called; its result is returned; its exception is kept, and unless this was
\* the last attempt the loop sleeps retry_delay * 2 ** attempt; after the
\* loop last_exception is raised
RECURSIVE retry_loop(_, _, _, _, _, _)
retry_loop(attempt, retry_attempts, retry_delay, outcomes, sleeps, last_exception) ==
    IF attempt >= retry_attempts
    THEN [kind |-> "raised", calls |-> attempt, sleeps |-> sleeps,
          exception |-> IF last_exception = NoException THEN RaiseNone
                        ELSE last_exception]
    ELSE IF outcomes[attempt + 1].kind = "returns"
    THEN [kind |-> "returned", calls |-> attempt + 1, sleeps |-> sleeps,
          exception |-> NoException]
    ELSE retry_loop(attempt + 1, retry_attempts, retry_delay, outcomes,
                    IF attempt < retry_attempts - 1
                    THEN Append(sleeps, retry_delay * Power2(attempt))
                    ELSE sleeps,
                    outcomes[attempt + 1])

\* variant of retry_with_backoff with a sleep after the last attempt too
retry_with_backoff_sleeps_always(retry_attempts, retry_delay, outcomes) ==
    retry_loop_sleeps_always(0, retry_attempts, retry_delay, outcomes, <<>>,
                             NoException)

\* retry_with_backoff(func): how it ends, the number of calls of func, the
\* waits it slept in order, and the exception it raised
retry_with_backoff(retry_attempts, retry_delay, outcomes) ==
    retry_loop(0, retry_attempts, retry_delay, outcomes, <<>>, NoException)

\* ClaudeClient.generate / OpenAIClient.generate: the ModelResponse built
\* from the API response, or in the except clause the one with content "",
\* tokens_used 0, cost 0 and error = str(e).  tokens_used and cost of a
\* response from the API are 1 here; error "None" is None.
generate(retry_attempts, retry_delay, outcomes) ==
    LET response == retry_with_backoff(retry_attempts, retry_delay, outcomes)
    IN  IF response.kind = "returned"
        THEN [content |-> "text", tokens_used |-> 1, cost |-> 1, error |-> "None",
              raised |-> FALSE]
        ELSE [content |-> "", tokens_used |-> 0, cost |-> 0,
              error |-> response.exception.message, raised |-> FALSE]

\* `if response.error:` is false for None and for the empty string
ErrorIsTruthy(response) == response.error \notin {"None", ""}

\* _generate_single_variation after model_client.generate: None for a
\* response whose error is truthy, else the variation with response.content
variation_of_response(response) ==
    IF ErrorIsTruthy(response) THEN "None"
    ELSE IF response.content = "" THEN "variation_without_content"
    ELSE "variation"

\* ModelClient.__init__ with the retry_attempts and retry_delay of the
\* configuration, and the behaviour of the API on the calls to come
InitClient ==
    /\ OrchestratorConstructed("calling")
    /\ NoEvaluatorCall
    /\ NoGeneratorCall
    /\ NoTrackerCall
    /\ rt_pc = "ready"
    /\ rt_retry_attempts \in 0..MaxAttempts
    /\ rt_retry_delay \in RetryDelays
    /\ rt_outcomes \in [1..MaxAttempts -> CallOutcomes]
    /\ rt_retry = [kind |-> "none"]
    /\ rt_response = [kind |-> "none"]
    /\ rt_variation = "none"

\* a call of retry_with_backoff(self._call_api, ...)
RetryWithBackoff ==
    /\ rt_pc = "ready"
    /\ rt_retry' = retry_with_backoff(rt_retry_attempts, rt_retry_delay, rt_outcomes)
    /\ rt_pc' = "retried"
    /\ UNCHANGED << rt_retry_attempts, rt_retry_delay, rt_outcomes, rt_response,
                    rt_variation >>
    /\ UNCHANGED << orchestrator_vars, performance_history, fm_vars, ev_vars,
                    gen_vars, bt_vars >>

\* a call of generate(prompt) of a client
Generate ==
    /\ rt_pc = "ready"
    /\ rt_retry' = retry_with_backoff(rt_retry_attempts, rt_retry_delay, rt_outcomes)
    /\ rt_response' = generate(rt_retry_attempts, rt_retry_delay, rt_outcomes)
    /\ rt_pc' = "generated"
    /\ UNCHANGED << rt_retry_attempts, rt_retry_delay, rt_outcomes, rt_variation >>
    /\ UNCHANGED << orchestrator_vars, performance_history, fm_vars, ev_vars,
                    gen_vars, bt_vars >>

\* _generate_single_variation takes the response
HandleResponse ==
    /\ rt_pc = "generated"
    /\ rt_variation' = variation_of_response(rt_response)
    /\ rt_pc' = "handled"
    /\ UNCHANGED << rt_retry_attempts, rt_retry_delay, rt_outcomes, rt_retry,
                    rt_response >>
    /\ UNCHANGED << orchestrator_vars, performance_history, fm_vars, ev_vars,
                    gen_vars, bt_vars >>

NextClient ==
    \/ RetryWithBackoff
    \/ Generate
    \/ HandleResponse

SpecClient == InitClient /\ [][NextClient]_vars

(***************************************************************************)
(* Properties                                                              *)
(***************************************************************************)
\* a step of run_complete_cycle that appended a record to iteration_results
RoundRecorded == Len(iteration_results') = Len(iteration_results) + 1

\* C1: the best_overall_score of consecutive records of iteration_results never
\* decreases; it starts at 0, and the stored best is never below the last
\* record's.
C1_BestOverallMonotone ==
    /\ \A i \in 1..(Len(iteration_results) - 1) :
          iteration_results[i].best_overall_score
              <= iteration_results[i + 1].best_overall_score
    /\ \A i \in DOMAIN iteration_results :
          iteration_results[i].best_overall_score >= 0
    /\ iteration_results # <<>> =>
          Last(iteration_results).best_overall_score <= best_overall_score

\* a round scored below the best so far and its record kept the earlier best
C1_Witness ==
    \E i \in 1..(Len(iteration_results) - 1) :
        /\ iteration_results[i + 1].best_score_this_iteration
              < iteration_results[i].best_overall_score
        /\ iteration_results[i + 1].best_overall_score
              = iteration_results[i].best_overall_score

\* C7: a recorded round whose best score is not above best_overall_score
\* leaves best_overall_score and best_prompt as they were.
C7_TieKeepsBest ==
    [][(RoundRecorded
        /\ Last(iteration_results').best_score_this_iteration <= best_overall_score)
       => (best_overall_score' = best_overall_score /\ best_prompt' = best_prompt)]_vars

\* a round tied the best so far with the post of another prompt variation than
\* the one that holds the best, and the earlier prompt was kept
C7_Witness ==
    /\ Len(iteration_results) >= 2
    /\ Last(iteration_results).best_score_this_iteration = best_overall_score
    /\ iteration_results[Len(iteration_results) - 1].best_overall_score
          = best_overall_score
    /\ best_overall_score > 0
    /\ feedback_summary.best_performing_prompt # "unknown"
    /\ \E v \in Range(prompt_variations) :
          /\ v.name = feedback_summary.best_performing_prompt
          /\ v.prompt_text # best_prompt

\* no round entered so far has failed
NoRoundFailed == Len(iteration_results) = iteration

\* the number of consecutive rounds, counted back from the last record, whose
\* best score rose by less than convergence_threshold over the round before
RECURSIVE TrailingLowDeltas(_)
TrailingLowDeltas(results) ==
    IF Len(results) < 2 THEN 0
    ELSE IF Last(results).best_score_this_iteration
              - results[Len(results) - 1].best_score_this_iteration
                < convergence_threshold
    THEN 1 + TrailingLowDeltas(SubSeq(results, 1, Len(results) - 1))
    ELSE 0

\* every recorded round after the first improved on the one before by 0.01,
\* and no round scored above 0.95
ImprovesByOneEachRound ==
    /\ iteration_results # <<>>
    /\ \A i \in 1..(Len(iteration_results) - 1) :
          iteration_results[i + 1].best_score_this_iteration
              = iteration_results[i].best_score_this_iteration + 1
    /\ \A i \in DOMAIN iteration_results :
          iteration_results[i].best_score_this_iteration <= ExcellentScore

\* C2: in a run without a failed round, stagnation_count is the number of
\* consecutive latest rounds with a delta below convergence_threshold (it is
\* incremented on each such round and reset by any other), the loop goes on
\* only while it is below max_stagnation, and the run stops through the
\* stagnation branch exactly when it reaches max_stagnation.  With the defaults
\* and each round improving by 0.01 under a cap above 4, the run ends after
\* round 4.
C2_StagnationStop ==
    NoRoundFailed =>
        /\ stagnation_count = TrailingLowDeltas(iteration_results)
        /\ pc = "loop" => stagnation_count < max_stagnation
        /\ stagnation_count >= max_stagnation <=> exit_branch = "stagnation"
        /\ (ImprovesByOneEachRound /\ max_iterations > max_stagnation + 1
                /\ num_iterations > max_stagnation + 1)
              => /\ Len(iteration_results) <= max_stagnation + 1
                 /\ pc = "loop" <=> Len(iteration_results) < max_stagnation + 1

\* four rounds scored 0.92, 0.93, 0.94, 0.95 under a cap of five and the run
\* has ended after the fourth through the stagnation branch
C2_Witness ==
    /\ NoRoundFailed
    /\ ImprovesByOneEachRound
    /\ Len(iteration_results) = 4
    /\ max_iterations > 4
    /\ num_iterations > 4
    /\ stagnation_count = max_stagnation
    /\ exit_branch = "stagnation"
    /\ pc = "returned"

\* C3: a round whose best score is above 0.95 is the last round of the run,
\* whatever stagnation_count is; the excellent-score branch is never taken on a
\* best score of 0.95 or less, and such a round lets the loop go on when the
\* stagnation limit and the caps allow it.
C3_ExcellentStop ==
    /\ \A i \in DOMAIN iteration_results :
          iteration_results[i].best_score_this_iteration > ExcellentScore
             => /\ i = Len(iteration_results)
                /\ iteration = iteration_results[i].iteration
                /\ pc \in {"summary", "returned"}
    /\ exit_branch = "excellent"
          => Last(iteration_results).best_score_this_iteration > ExcellentScore
    /\ (/\ iteration_results # <<>>
        /\ iteration = Last(iteration_results).iteration
        /\ Last(iteration_results).best_score_this_iteration <= ExcellentScore
        /\ stagnation_count < max_stagnation
        /\ iteration < max_iterations
        /\ iteration < num_iterations)
          => pc = "loop"

\* a round scored exactly 0.95 and the run went on; the next round scored
\* above 0.95 and ended the run with stagnation_count at 1
C3_Witness ==
    /\ Len(iteration_results) >= 2
    /\ iteration_results[Len(iteration_results) - 1].best_score_this_iteration
          = ExcellentScore
    /\ Last(iteration_results).best_score_this_iteration > ExcellentScore
    /\ stagnation_count = 1
    /\ exit_branch = "excellent"
    /\ pc = "returned"

\* post_analyzer.analyze_posts has returned a style analysis
AnalysisSucceeded == style_analysis \in StyleInputs

\* C4: once analyze_posts has succeeded, run_complete_cycle propagates no
\* exception, and what it returns is the final summary, whatever the rounds
\* did.
C4_AlwaysSummary ==
    AnalysisSucceeded =>
        /\ pc # "raised"
        /\ pc = "returned" => final_results.kind = "summary"

\* C5: the convergence_achieved flag of the returned summary is true exactly
\* when the last convergence check ended the run through the excellent-score
\* branch or through the stagnation branch.
C5_ConvergenceFlag ==
    pc = "returned" =>
        (final_results.convergence_achieved
            <=> exit_branch \in {"excellent", "stagnation"})

\* a step of the loop whose round scored an empty batch: the record appended to
\* performance_history holds no means
ZeroCandidateRound ==
    /\ iteration' = iteration + 1
    /\ Len(performance_history') = Len(performance_history) + 1
    /\ Last(performance_history').empty

\* the round did not end with an I/O error of a save call
NoSaveError == round_error' \notin {"save_feedback", "save_iteration"}

DirectiveTexts(summary) ==
    create_next_iteration_prompt(summary, {}) \ {"iteration_guidance"}

\* C8: the prompt texts of a round after a recorded round contain the
\* improvement_text of every directive selected in the round before.
C8_PromptFromFeedback ==
    [][(/\ iteration' = iteration + 1
        /\ iteration_results # <<>>
        /\ Last(iteration_results).iteration = iteration
        /\ feedback_summary.iteration = iteration)
       => \A v \in Range(prompt_variations') :
             DirectiveTexts(feedback_summary) \subseteq v.prompt_text]_vars

\* C9: a round in which comprehensive_comparison raised for a candidate is
\* still recorded in iteration_results.
C9_ScoringErrorKeepsRound ==
    round_error = "comparison"
        => /\ iteration_results # <<>>
           /\ Last(iteration_results).iteration = iteration

\* C10: generate_optimization_rules returns at most three directives, however
\* many rules apply to the weighted feedback.
C10_AtMostThreeRules == Len(fm_rules.rules) <= TopRules

\* more than three rules applied and three were returned
C10_Witness ==
    /\ fm_stage = "rules"
    /\ Len(SortedApplicableRules(fm_weighted)) > TopRules
    /\ Len(fm_rules.rules) = TopRules

\* the condition "area < threshold" read on the batch means
ConditionMetByMeans(condition, improvement_areas) ==
    /\ ~improvement_areas.empty
    /\ improvement_areas.mean[condition.area] < condition.threshold * MeanScale

\* C11: every condition "dim < t" of a directive returned by
\* generate_optimization_rules is met by the batch mean of dim, and a catalog
\* rule that matches one of the five heaviest areas and whose conditions the
\* batch means meet only in part is not returned.
C11_ConditionsSatisfied ==
    fm_stage = "rules" =>
        LET improvement_areas == identify_improvement_areas(fm_batch)
            returned == {fm_rules.rules[i].rule_name : i \in DOMAIN fm_rules.rules}
        IN  /\ \A i \in DOMAIN fm_rules.rules :
                  \A k \in DOMAIN fm_rules.rules[i].conditions :
                      ConditionMetByMeans(fm_rules.rules[i].conditions[k],
                                          improvement_areas)
            /\ \A j \in DOMAIN optimization_rules :
                  (\E k \in DOMAIN optimization_rules[j].conditions :
                      ~ConditionMetByMeans(optimization_rules[j].conditions[k],
                                           improvement_areas))
                    => optimization_rules[j].rule_name \notin returned


\* a batch method of the stand-alone evaluator has returned its list
BatchReturned ==
    /\ ev_stage = "returned"
    /\ ev_call \in {"batch_comparison", "compare_with_published_posts"}

\* C12: when published_posts is not empty, batch_comparison and
\* _compare_with_published_posts return one comparison per candidate, in the
\* order of the candidates, and the i-th candidate (counted from 0) is compared
\* with published_posts[i mod len(published_posts)]; two candidates against
\* five published posts are compared with the first and the second post.
C12_RoundRobinPairing ==
    BatchReturned =>
        /\ Len(ev_comparisons) = Len(ev_ai_posts)
        /\ \A i \in DOMAIN ev_comparisons :
              /\ ev_comparisons[i].prompt_name = ev_ai_posts[i].prompt_name
              /\ \E j \in DOMAIN ev_published_posts :
                    /\ j - 1 = (i - 1) % Len(ev_published_posts)
                    /\ ev_comparisons[i].published_post = ev_published_posts[j].title
        /\ (Len(ev_ai_posts) = 2 /\ Len(ev_published_posts) = 5) =>
              /\ ev_comparisons[1].published_post = ev_published_posts[1].title
              /\ ev_comparisons[2].published_post = ev_published_posts[2].title

\* batch_comparison has compared three candidates with two published posts,
\* the third candidate with the first post again
C12_Witness ==
    /\ ev_stage = "returned"
    /\ ev_call = "batch_comparison"
    /\ Len(ev_ai_posts) = 3
    /\ Len(ev_published_posts) = 2
    /\ ev_comparisons[3].published_post = ev_published_posts[1].title
    /\ ev_comparisons[2].published_post = ev_published_posts[2].title


\* a score lies within [0, 1]
InUnitInterval(x) == QLeq(QZero, x) /\ QLeq(x, QOne)

\* C13: whatever the texts and whatever the judge and the Battle evaluator
\* answer, the structural_match, style_similarity, content_depth,
\* data_usage_match, hook_effectiveness, conclusion_strength and
\* overall_similarity of a ComparisonScore lie within [0, 1].
C13_ScoresInUnitInterval ==
    ev_stage = "returned" =>
        \A i \in DOMAIN ev_comparisons :
            LET score == ev_comparisons[i].score
            IN  /\ InUnitInterval(score.structural_match)
                /\ InUnitInterval(score.style_similarity)
                /\ InUnitInterval(score.content_depth)
                /\ InUnitInterval(score.data_usage_match)
                /\ InUnitInterval(score.hook_effectiveness)
                /\ InUnitInterval(score.conclusion_strength)
                /\ InUnitInterval(score.overall_similarity)


\* the content of the published post the i-th comparison was made with (the
\* title of a published post is its position in published_posts)
ReferenceContent(i) == ev_published_posts[ev_comparisons[i].published_post].content

\* the numbers of data points of the two texts of the i-th comparison
CandidateDataPoints(i) == Len(extract_data_points(ev_ai_posts[i].content))

ReferenceDataPoints(i) == Len(extract_data_points(ReferenceContent(i)))

C15_SelfMatch ==
    ev_stage = "returned" =>
        \A i \in DOMAIN ev_comparisons :
            ev_ai_posts[i].content = ReferenceContent(i) =>
                /\ QLeq(Q(95, 100), ev_comparisons[i].score.structural_match)
                /\ QLeq(Q(95, 100), ev_comparisons[i].score.style_similarity)
                /\ QLeq(Q(95, 100), ev_comparisons[i].score.data_usage_match)

\* the counts the i-th comparison compares: (candidate, reference) for every
\* component that compares two counts or two pieces of text, with its value
ComparedComponents(i) ==
    LET ai == ev_ai_posts[i].content
        pub == ReferenceContent(i)
        sub == ev_comparisons[i].analyses
        ai_string == lower(content_string(ai))
        pub_string == lower(content_string(pub))
        pattern(text) ==
            SumSeq([k \in DOMAIN words_of(text) |->
                      voice_pattern_matches(words_of(text)[k])])
        insights(text) ==
            SumSeq([k \in DOMAIN text |->
                      count_all(lower(paragraph_string(text[k])), insight_keywords)])
        specifics(text) ==
            SumSeq([k \in DOMAIN words_of(text) |->
                      specifics_matches(words_of(text)[k])])
        tone(words) == tone_term(count_all(ai_string, words),
                                 count_all(pub_string, words))
    IN  { [name |-> "paragraph_length", ai |-> Len(ai), pub |-> Len(pub),
           value |-> sub.structural.paragraph_length],
          [name |-> "hook", ai |-> Len(ai), pub |-> Len(pub),
           value |-> sub.structural.hook_quality],
          [name |-> "conclusion", ai |-> Len(ai), pub |-> Len(pub),
           value |-> sub.structural.conclusion_quality],
          [name |-> "voice_patterns", ai |-> pattern(ai), pub |-> pattern(pub),
           value |-> sub.style.voice_patterns],
          [name |-> "tone_analytical", ai |-> count_all(ai_string, analytical_words),
           pub |-> count_all(pub_string, analytical_words),
           value |-> tone(analytical_words)],
          [name |-> "tone_confident", ai |-> count_all(ai_string, confident_words),
           pub |-> count_all(pub_string, confident_words),
           value |-> tone(confident_words)],
          [name |-> "tone_practical", ai |-> count_all(ai_string, practical_words),
           pub |-> count_all(pub_string, practical_words),
           value |-> tone(practical_words)],
          [name |-> "insight_density", ai |-> insights(ai), pub |-> insights(pub),
           value |-> sub.content.insight_density],
          [name |-> "specificity", ai |-> specifics(ai), pub |-> specifics(pub),
           value |-> sub.content.specificity] }

\* C16: every component that compares two counts or two pieces of text is
\* 1.0 when both sides are empty or zero and 0.0 when exactly one side is.
C16_NeutralDefaults ==
    ev_stage = "returned" =>
        \A i \in DOMAIN ev_comparisons :
            \A c \in ComparedComponents(i) :
                /\ (c.ai = 0 /\ c.pub = 0) => c.value = QOne
                /\ ((c.ai = 0) # (c.pub = 0)) => c.value = QZero


\* 0.60 judge + 0.10 structural + 0.15 style + 0.10 content_depth + 0.05 data_usage
JudgeBlend(score) ==
    QAdd(QAdd(QAdd(QAdd(QMul(score.llm_judge_score, Q(60, 100)),
                        QMul(score.structural_match, Q(10, 100))),
                   QMul(score.style_similarity, Q(15, 100))),
              QMul(score.content_depth, Q(10, 100))),
         QMul(score.data_usage_match, Q(5, 100)))

\* 0.25 structural + 0.30 style + 0.25 content_depth + 0.20 data_usage
TraditionalBlend(score) ==
    QAdd(QAdd(QAdd(QMul(score.structural_match, Q(25, 100)),
                   QMul(score.style_similarity, Q(30, 100))),
              QMul(score.content_depth, Q(25, 100))),
         QMul(score.data_usage_match, Q(20, 100)))

\* C17: the judge blend is used when the judge is enabled and answered with a
\* score; when the judge is disabled, or enabled and its call raised, the
\* ComparisonScore carries no judge score and its overall_similarity is the
\* blend 0.25 / 0.30 / 0.25 / 0.20 of the four sub-scores.
C17_JudgeBlendOnlyWithScore ==
    ev_stage = "returned" =>
        \A i \in DOMAIN ev_comparisons :
            LET score == ev_comparisons[i].score
                response == ev_comparisons[i].judge_response
            IN  /\ (ev_use_llm_judge /\ response = "score")
                      => score.overall_similarity = JudgeBlend(score)
                /\ (~ev_use_llm_judge \/ response = "exception")
                      => /\ score.llm_judge_score = None
                         /\ score.overall_similarity = TraditionalBlend(score)


\* the strategies of the tasks submitted for a model
DispatchedStrategies(model_name) ==
    {gen_tasks[k].strategy_name :
        k \in {j \in DOMAIN gen_tasks : gen_tasks[j].model_name = model_name}}

\* C18: for every model with a client generate_variations submits the three
\* strategies technical, business and data-driven in cycle 1, refined and
\* expanded in cycle 2 and polished in cycle 3, so that cycle 1 has three
\* tasks per model and every later cycle fewer tasks than the one before.
C18_StrategyUnitsPerRound ==
    gen_pc # "idle" =>
        /\ \A model_name \in gen_models :
              DispatchedStrategies(model_name) =
                  (IF gen_cycle = 1 THEN {"technical", "business", "data-driven"}
                   ELSE IF gen_cycle = 2 THEN {"refined", "expanded"}
                   ELSE {"polished"})
        /\ gen_cycle = 1 => Len(gen_tasks) = 3 * Cardinality(gen_models)
        /\ gen_models # {} =>
              /\ Len(generation_tasks(gen_models, 2)) < Len(generation_tasks(gen_models, 1))
              /\ Len(generation_tasks(gen_models, 3)) < Len(generation_tasks(gen_models, 2))

\* the (model, strategy) pair of a task or of a variation
TaskUnit(task) == << task.model_name, task.strategy_name >>

VariationUnit(variation) == << variation.model, variation.strategy >>

\* the tasks whose _generate_single_variation returned a variation
SucceededTasks ==
    {k \in DOMAIN gen_futures : gen_futures[k].result.kind = "variation"}

C20_SlowUnitExcluded ==
    gen_pc = "returned" =>
        \A k \in DOMAIN gen_tasks :
            LET returned == \E i \in DOMAIN gen_variations :
                                VariationUnit(gen_variations[i]) = TaskUnit(gen_tasks[k])
            IN  /\ gen_futures[k].exceeded_timeout => ~returned
                /\ (k \in SucceededTasks /\ ~gen_futures[k].exceeded_timeout)
                      => returned


\* C21: generate_variations returns only after every submitted unit has
\* ended and its future was taken by the loop of the calling thread, so no
\* unit can add a candidate afterwards; stats['total_generated'] is written by
\* the calling thread only, so it always equals the number of candidates
\* appended; performance_history is not touched while the units run.
C21_JoinedBeforeReturn ==
    /\ gen_pc = "returned" =>
          \A k \in DOMAIN gen_futures :
              gen_futures[k].state = "finished" /\ k \in gen_collected
    /\ gen_stats.total_generated = Len(gen_variations)
    /\ gen_pc \in {"collecting", "returned"} => performance_history = <<>>

C21_Witness ==
    /\ gen_pc = "returned"
    /\ Len(gen_futures) >= 2
    /\ gen_stats.total_generated >= 1
    /\ \E k \in DOMAIN gen_futures : gen_futures[k].result.kind = "None"


\* C22: a tracker constructed without BRAINTRUST_API_KEY is disabled, and
\* whatever calls of start_experiment, log_generation, log_evaluation and
\* finish_experiment are made on it, none raises, experiment stays None and
\* start_experiment and finish_experiment return "disabled".
C22_DisabledTrackerIsInert ==
    ~bt_api_key =>
        /\ bt_enabled = FALSE
        /\ bt_experiment = 0
        /\ bt_opened = 0
        /\ ~bt_raised
        /\ bt_result \in {"none", "disabled"}

C22_Witness ==
    /\ ~bt_api_key
    /\ bt_pc = "test"
    /\ Range(bt_calls) = {"start_experiment", "log_generation", "log_evaluation",
                          "finish_experiment"}
    /\ bt_calls[1] = "start_experiment"
    /\ bt_calls[4] = "finish_experiment"
    /\ bt_result = "disabled"

\* C27: when generate_blog_post or run_complete_cycle returns, every
\* experiment started on the tracker during the call has been finished while
\* it was the tracker's current experiment.
C27_StartedExperimentsFinished ==
    bt_pc = "returned" => \A id \in 1..bt_opened : id \in bt_finished


\* C23: run_complete_cycle never enters a round whose index exceeds
\* max_iterations, whether or not rounds fail with exceptions.
C23_NoRoundBeyondCap == iteration <= max_iterations


\* C24: whenever a round replaces best_overall_score, best_prompt becomes the
\* prompt_text of a variation whose post has the highest score of that round.
C24_BestPromptOfBestCandidate ==
    best_candidate_prompts # {} => best_prompt \in best_candidate_prompts


\* C25: a round that fails with an exception leaves iteration_results,
\* stagnation_count, best_overall_score, best_prompt and performance_history
\* as they were, so performance_history and iteration_results always have the
\* same length and best_overall_score is the highest best_score_this_iteration
\* of the recorded rounds (0 when there is none).
C25_FailedRoundLeavesNoTrace ==
    /\ Len(performance_history) = Len(iteration_results)
    /\ best_overall_score =
          IF iteration_results = <<>> THEN 0
          ELSE MaxSeq([i \in DOMAIN iteration_results |->
                          iteration_results[i].best_score_this_iteration])


\* C26: generate_optimization_rules raises for no batch of one or more
\* posts, the batch in which every dimension is 1.0 included.
C26_RulesNeverRaise == fm_batch # <<>> => ~fm_rules.raised


\* the calls of func before call k all raised
AllRaiseBefore(k) == \A j \in 1..(k - 1) : rt_outcomes[j].kind = "raises"

\* C28: with retry_attempts = n >= 1, retry_with_backoff calls func at most n
\* times, returns at the first call that succeeds, sleeps retry_delay * 2^k
\* after failed attempt k (0-based) only when an attempt k+1 follows, and
\* raises the exception of the last attempt after exactly n failed calls.
C28_RetryWithBackoff ==
    (rt_pc = "retried" /\ rt_retry_attempts >= 1) =>
        /\ rt_retry.calls \in 1..rt_retry_attempts
        /\ AllRaiseBefore(rt_retry.calls)
        /\ rt_retry.kind = "returned" =>
              /\ rt_outcomes[rt_retry.calls].kind = "returns"
              /\ rt_retry.sleeps = [k \in 1..(rt_retry.calls - 1) |->
                                        rt_retry_delay * Power2(k - 1)]
        /\ rt_retry.kind = "raised" =>
              /\ rt_retry.calls = rt_retry_attempts
              /\ rt_retry.exception = rt_outcomes[rt_retry_attempts]
              /\ rt_retry.sleeps = [k \in 1..(rt_retry_attempts - 1) |->
                                        rt_retry_delay * Power2(k - 1)]
        /\ rt_retry.kind \in {"returned", "raised"}

\* all three attempts fail: two sleeps of 2 and 4, the third exception raised
C28_Witness ==
    /\ rt_pc = "retried"
    /\ rt_retry_attempts = 3
    /\ rt_retry_delay = 2
    /\ rt_retry.kind = "raised"
    /\ rt_retry.calls = 3
    /\ rt_retry.sleeps = << 2, 4 >>
    /\ rt_outcomes[2].message # rt_outcomes[3].message

\* C29: generate never raises; when every attempt fails its ModelResponse has
\* error set (not None), content "", tokens_used 0 and cost 0; when an attempt
\* succeeds error is None; and _generate_single_variation drops exactly the
\* responses whose error is set.
C29_ErrorResponsesDropped ==
    rt_pc = "handled" =>
        /\ ~rt_response.raised
        /\ rt_retry.kind = "raised" =>
              /\ rt_response.error # "None"
              /\ rt_response.content = ""
              /\ rt_response.tokens_used = 0
              /\ rt_response.cost = 0
        /\ rt_retry.kind = "returned" => rt_response.error = "None"
        /\ (rt_variation = "None") <=> (rt_response.error # "None")


\* the overall_similarity means of the last three records, oldest first
RecentTrend ==
    [k \in 1..3 |-> HistoryOverall(performance_history[Len(performance_history) - 3 + k])]

\* the confidence lies in [0, 1], and is 0.0 for an empty batch
ConfidenceInRange ==
    /\ fm_confidence.confidence \in 0..1000
    /\ fm_batch = <<>> => fm_confidence.confidence = 0

\* C30 as stated: the 0.2 penalty is subtracted iff the last three recorded
\* means are strictly declining (h[-3] > h[-2] > h[-1]); the confidence lies
\* in [0, 1] and is 0.0 for an empty batch.
C30_PenaltyIffStrictlyDeclining ==
    fm_confidence # NoConfidence =>
        /\ (fm_confidence.decline_penalty = 200) <=>
              /\ Len(performance_history) >= 3
              /\ RecentTrend[1] > RecentTrend[2]
              /\ RecentTrend[2] > RecentTrend[3]
        /\ ConfidenceInRange

\* C30, amended: for a batch that is not empty the 0.2 penalty is subtracted
\* iff three or more rounds are recorded and the latest mean is below the
\* mean of two rounds before (h[-1] < h[-3]), whatever the round between; the
\* confidence lies in [0, 1] and is 0.0 for an empty batch.
C30_PenaltyIffBelowThirdLast ==
    fm_confidence # NoConfidence =>
        /\ fm_batch # <<>> =>
              ((fm_confidence.decline_penalty = 200) <=>
                  /\ Len(performance_history) >= 3
                  /\ RecentTrend[3] < RecentTrend[1])
        /\ fm_batch = <<>> => fm_confidence.decline_penalty = 0
        /\ ConfidenceInRange

\* the penalty is subtracted although the round between is the lowest
C30_Witness ==
    /\ fm_confidence # NoConfidence
    /\ fm_batch # <<>>
    /\ Len(performance_history) = 3
    /\ fm_confidence.decline_penalty = 200
    /\ RecentTrend[2] < RecentTrend[3]
    /\ RecentTrend[3] < RecentTrend[1]
    /\ fm_confidence.confidence \in 1..999

====
